---- MODULE Spec2Model ----
(***************************************************************************)
(* A model of the J-Quants client and screener of src/jquants_api.py.      *)
(*                                                                         *)
(*   Spec          JQuantsClient._get (retry loop) under _get_paginated    *)
(*   FairSpec      the same with the progress the blocking, timed-out I/O  *)
(*                 and the finite sleeps of the code give                  *)
(*   SpecReduce    JQuantsClient._keep_latest_statements                   *)
(*   SpecReduceTied  the same over lists with period types of equal        *)
(*                 priority                                                *)
(*   SpecDividend  JQuantsScreener._has_no_dividend_cut                    *)
(*   SpecRun       JQuantsScreener.run: _merge_all, _apply_filters and     *)
(*                 _check_no_dividend_cut over the answers of the service  *)
(*   SpecScreen    _merge_all and _apply_filters over varied tables        *)
(*   SpecLocate    JQuantsClient.get_latest_trading_date                   *)
(*   SpecCollect   JQuantsClient.collect_recent_statements                 *)
(*   SpecFetchDate one sampled date of the collector with the requests of  *)
(*                 its paginated call                                      *)
(*   SpecSession   JQuantsClient.__init__ and _authenticate, then run      *)
(*                 with the client: the token and the boundary it holds    *)
(***************************************************************************)
EXTENDS Integers, Sequences, FiniteSets, TLC

VARIABLES
  \* ---- JQuantsClient._get: locals of the call in progress
  pc,         \* "idle" | "attempt" | "sleep" | "returned" | "raised"
  attempt,    \* the loop index of `for attempt in range(4)`
  resp,       \* the last response (or transport failure) of this call
  last_exc,   \* last_exc
  wait,       \* the argument of the time.sleep in progress / last done
  nreq,       \* requests.get calls issued by this call
  n429,       \* how many of them were answered 429
  outcome,    \* what the call returned or raised
  \* ---- JQuantsClient._get_paginated
  ppc,        \* "idle" | "loop" | "done" | "raised"
  orig,       \* the params argument as passed by the caller
  params,     \* params (rebound on every page)
  results,    \* results
  sent,       \* the params of every self._get call made, in order
  got,        \* the bodies self._get returned, in order
  presult,    \* what _get_paginated returned or raised
  \* ---- JQuantsClient._keep_latest_statements
  red_pc,     \* "input" | "done"
  stmts,      \* the rows of the DataFrame passed in (all_statements)
  reduced,    \* the rows of the DataFrame returned
  \* ---- JQuantsScreener._has_no_dividend_cut
  div_pc,        \* "input" | "done"
  div_cut_years, \* self.div_cut_years
  stmt_df,       \* the rows get_statements_for_code returned
  annual,        \* the annual rows after conversion and sort_values (line 471)
  dps_values,    \* dps_values (line 475)
  no_cut,        \* the value returned
  \* ---- JQuantsScreener.run
  run_pc,           \* the step run is at, "returned" or "raised"
  subscription_end, \* self.client.subscription_end
  listed,           \* listed
  latest_date,      \* latest_date
  prices,           \* prices
  statements,       \* statements
  holdings_codes,   \* the argument of run
  merged,           \* merged
  candidates,       \* candidates
  fetched,          \* per candidate checked: the history fetched (or the failure)
  check_results,    \* results of _check_no_dividend_cut
  run_result,       \* what run returned (holdings_df, candidates) or raised
  \* ---- JQuantsClient.get_latest_trading_date
  loc_pc,           \* "initial" | "search" | "returned" | "raised"
  calendar,         \* the dates the service holds prices for (not seen by the code)
  first_probe,      \* what the probe of today gave: "data", "empty" or the exception
  search_from,      \* search_from
  loc_i,            \* i of `for i in range(14)`
  errors,           \* errors
  probed,           \* the probes of the loop so far: date and outcome
  loc_result,       \* the date returned or the RuntimeError raised
  \* ---- JQuantsClient.collect_recent_statements
  col_pc,           \* "start" | "scan" | "returned" | "raised"
  scan_dates,       \* scan_dates
  col_idx,          \* how many of scan_dates the loop has done
  all_statements,   \* all_statements
  n_received,       \* the statements the service returned, over all dates
  n_failed,         \* the dates whose fetch raised
  requested,        \* the dates fetched so far, in the order of the calls
  discarded,        \* the items of the pages the last failed date had received
  col_result,       \* the frame returned or the RuntimeError raised
  \* ---- JQuantsClient.__init__ and _authenticate, and the session's token
  auth_pc,          \* "off" | "auth_user" | "auth_refresh" | "constructed" | "raised"
  refresh_token,    \* refresh_token
  id_token,         \* self.id_token
  auth_requests,    \* the requests.post calls made, each with its response
  auth_error,       \* the exception that left the constructor
  bearers           \* the token of the Authorization header of every data call

fetchVars == <<pc, attempt, resp, last_exc, wait, nreq, n429, outcome,
               ppc, orig, params, results, sent, got, presult>>
redVars == <<red_pc, stmts, reduced>>
divVars == <<div_pc, div_cut_years, stmt_df, annual, dps_values, no_cut>>

runVars == <<run_pc, subscription_end, listed, latest_date, prices, statements,
             holdings_codes, merged, candidates, fetched, check_results, run_result>>

\* runVars without the session field the locator writes
runRest == <<run_pc, listed, latest_date, prices, statements,
             holdings_codes, merged, candidates, fetched, check_results, run_result>>

locVars == <<loc_pc, calendar, first_probe, search_from, loc_i, errors, probed,
             loc_result>>

colVars == <<col_pc, scan_dates, col_idx, all_statements, n_received, n_failed,
             requested, discarded, col_result>>

\* colVars without the list of sampled dates
colRest == <<col_pc, col_idx, all_statements, n_received, n_failed,
             requested, discarded, col_result>>

authVars == <<auth_pc, refresh_token, id_token, auth_requests, auth_error,
              bearers>>

vars == <<fetchVars, redVars, divVars, runVars, locVars, colVars, authVars>>

----------------------------------------------------------------------------
(* Bounds of the model *)

\* The longest pagination the modelled service produces.
MaxPages == 3
\* The most rows of the accumulated statements table.
MaxStmts == 3
\* The most rows of one identifier's statement history.
MaxHistory == 3

----------------------------------------------------------------------------
(* Values *)

Absent == "<absent>"          \* a key a dict does not hold (dict.get -> None)

\* `for attempt in range(4)`
MaxAttempts_OneMore == 4 + 1
MaxAttempts == 4
\* `wait = 60 * (attempt + 1)`
RateLimitBackoff == 60
\* `time.sleep(10 * (attempt + 1))`
ServerErrorBackoff == 10
\* `time.sleep(10)`
TransportBackoff == 10

ClientErrorStatuses == {400, 404}
ServerErrorStatuses == {500, 503}
TransportFailures == {"Timeout", "ConnectionError"}
ErrorTexts == {"bad request", "not found"}

\* Exceptions, as one record shape: type, and for an HTTPError the status and
\* body of its response; for the RuntimeError of line 97 the wrapped last_exc.
Exc(type, status, text, cause) ==
  [type |-> type, status |-> status, text |-> text, cause |-> cause]
NoCause == <<"-", 0>>
NoExc == Exc("None", 0, "", NoCause)
HTTPError(status, text) == Exc("HTTPError", status, text, NoCause)
TransportError(kind) == Exc(kind, 0, "", NoCause)
\* f"APIリクエスト失敗 [{endpoint}]: {last_exc}": the message holds str(last_exc)
RuntimeError(exc) ==
  Exc("RuntimeError", 0, "", IF exc.type = "HTTPError"
                              THEN <<exc.type, exc.status>> ELSE <<exc.type, 0>>)

\* A response: its status code, the parsed JSON body of a 200 and the text of an
\* error response. A transport failure has no response: status 0, and the
\* exception's class as text.
Response(status, body, text) == [status |-> status, body |-> body, text |-> text]
\* An array the body does not hold under `key` (data.get(key, []) gives []).
NoItems == <<Absent>>
NoBody == [items |-> NoItems, pagination_key |-> Absent]
NoResp == Response(0, NoBody, "")

\* The item arrays and cursors the modelled service answers with. A body is the
\* dict resp.json() returns, reduced to the two keys _get_paginated reads.
ItemArrays == {NoItems, <<"a">>, <<"b", "c">>}
Cursors == {Absent, "", "k1", "k2"}
Bodies == [items : ItemArrays, pagination_key : Cursors]

\* The params dicts callers pass: None (listed/info) or {"date": ...}.
EmptyDict == [k \in {} |-> ""]
CallerParams == {EmptyDict, [date |-> "20240510"]}

\* {**params, "pagination_key": pagination_key}
MergeKey(p, k) ==
  [x \in DOMAIN p \cup {"pagination_key"} |->
     IF x = "pagination_key" THEN k ELSE p[x]]

\* data.get(key, [])
ItemsOf(data) == IF data.items = NoItems THEN <<>> ELSE data.items
\* `not pagination_key`
Falsy(k) == k = Absent \/ k = ""

----------------------------------------------------------------------------
(* JQuantsClient._get *)

getLocals == <<pc, attempt, resp, last_exc, wait, nreq, n429, outcome>>
pagLocals == <<ppc, orig, params, results, sent, got, presult>>

\* requests.get(...) of line 72 is issued.
Issued == nreq' = nreq + 1

\* Lines 72, 83-84: a 200 answer; raise_for_status passes and the body is returned.
Respond200(body) ==
  /\ pc = "attempt"
  /\ Len(got) + 1 >= MaxPages => Falsy(body.pagination_key)
  /\ Issued
  /\ resp' = Response(200, body, "")
  /\ pc' = "returned"
  /\ outcome' = [kind |-> "json", body |-> body, exc |-> NoExc]
  /\ UNCHANGED <<attempt, last_exc, wait, n429>>
  /\ UNCHANGED pagLocals

\* Lines 73-77: a 429 answer; sleep 60 * (attempt + 1), then `continue`.
Respond429_FixedWait ==
  /\ pc = "attempt"
  /\ Issued
  /\ resp' = Response(429, NoBody, "rate limit")
  /\ n429' = n429 + 1
  /\ wait' = RateLimitBackoff
  /\ pc' = "sleep"
  /\ UNCHANGED <<attempt, last_exc, outcome>>
  /\ UNCHANGED pagLocals

Respond429_Raises ==
  /\ pc = "attempt"
  /\ Issued
  /\ resp' = Response(429, NoBody, "rate limit")
  /\ n429' = n429 + 1
  /\ last_exc' = HTTPError(429, "rate limit")
  /\ pc' = "raised"
  /\ outcome' = [kind |-> "raise", body |-> NoBody, exc |-> last_exc']
  /\ UNCHANGED <<attempt, wait>>
  /\ UNCHANGED pagLocals

Respond429 ==
  /\ pc = "attempt"
  /\ Issued
  /\ resp' = Response(429, NoBody, "rate limit")
  /\ n429' = n429 + 1
  /\ wait' = RateLimitBackoff * (attempt + 1)
  /\ pc' = "sleep"
  /\ UNCHANGED <<attempt, last_exc, outcome>>
  /\ UNCHANGED pagLocals

\* Lines 83, 85-89: a 4xx answer other than 429; raise_for_status raises an
\* HTTPError holding the response, status_code < 500 re-raises it.
RespondClientError_Retried(status, text) ==
  /\ pc = "attempt"
  /\ Issued
  /\ resp' = Response(status, NoBody, text)
  /\ last_exc' = HTTPError(status, text)
  /\ wait' = ServerErrorBackoff * (attempt + 1)
  /\ pc' = "sleep"
  /\ UNCHANGED <<attempt, n429, outcome>>
  /\ UNCHANGED pagLocals

RespondClientError(status, text) ==
  /\ pc = "attempt"
  /\ Issued
  /\ resp' = Response(status, NoBody, text)
  /\ last_exc' = HTTPError(status, text)
  /\ pc' = "raised"
  /\ outcome' = [kind |-> "raise", body |-> NoBody, exc |-> last_exc']
  /\ UNCHANGED <<attempt, wait, n429>>
  /\ UNCHANGED pagLocals

\* Lines 83, 85-91 with a fixed sleep of 10 seconds.
RespondServerError_FixedWait(status) ==
  /\ pc = "attempt"
  /\ Issued
  /\ resp' = Response(status, NoBody, "server error")
  /\ last_exc' = HTTPError(status, "server error")
  /\ wait' = ServerErrorBackoff
  /\ pc' = "sleep"
  /\ UNCHANGED <<attempt, n429, outcome>>
  /\ UNCHANGED pagLocals

\* Lines 83, 85-91: a 5xx answer; sleep 10 * (attempt + 1) and loop.
RespondServerError(status) ==
  /\ pc = "attempt"
  /\ Issued
  /\ resp' = Response(status, NoBody, "server error")
  /\ last_exc' = HTTPError(status, "server error")
  /\ wait' = ServerErrorBackoff * (attempt + 1)
  /\ pc' = "sleep"
  /\ UNCHANGED <<attempt, n429, outcome>>
  /\ UNCHANGED pagLocals

\* Lines 92-95: requests.get raised Timeout or ConnectionError; sleep 10 and loop.
TransportFailure(kind) ==
  /\ pc = "attempt"
  /\ Issued
  /\ resp' = Response(0, NoBody, kind)
  /\ last_exc' = TransportError(kind)
  /\ wait' = TransportBackoff
  /\ pc' = "sleep"
  /\ UNCHANGED <<attempt, n429, outcome>>
  /\ UNCHANGED pagLocals

\* Line 70: the sleep is over and range(4) yields the next attempt.
NextAttempt ==
  /\ pc = "sleep"
  /\ attempt + 1 < MaxAttempts
  /\ attempt' = attempt + 1
  /\ pc' = "attempt"
  /\ UNCHANGED <<resp, last_exc, wait, nreq, n429, outcome>>
  /\ UNCHANGED pagLocals

\* Lines 70, 97: the sleep is over, range(4) is exhausted, RuntimeError is raised.
Exhausted ==
  /\ pc = "sleep"
  /\ attempt + 1 >= MaxAttempts
  /\ pc' = "raised"
  /\ outcome' = [kind |-> "raise", body |-> NoBody, exc |-> RuntimeError(last_exc)]
  /\ UNCHANGED <<attempt, resp, last_exc, wait, nreq, n429>>
  /\ UNCHANGED pagLocals

----------------------------------------------------------------------------
(* JQuantsClient._get_paginated *)

\* Lines 99-102: the call; params = params or {}, results = [].
Call(p) ==
  /\ ppc = "idle"
  /\ ppc' = "loop"
  /\ orig' = p
  /\ params' = p
  /\ results' = <<>>
  /\ UNCHANGED <<sent, got, presult>>
  /\ UNCHANGED getLocals

\* Line 104 (and 66-68): self._get(endpoint, params) is entered.
GetBegin ==
  /\ ppc = "loop"
  /\ pc = "idle"
  /\ sent' = Append(sent, params)
  /\ pc' = "attempt"
  /\ UNCHANGED <<attempt, resp, last_exc, wait, nreq, n429, outcome>>
  /\ UNCHANGED <<ppc, orig, params, results, got, presult>>

\* self._get has returned into `data`: its frame, and with it its locals, is gone.
GetFrameDropped ==
  /\ pc' = "idle"
  /\ attempt' = 0
  /\ resp' = NoResp
  /\ last_exc' = NoExc
  /\ wait' = 0
  /\ nreq' = 0
  /\ n429' = 0
  /\ outcome' = [kind |-> "none", body |-> NoBody, exc |-> NoExc]

\* Lines 105-110: a page with a cursor; extend, merge the cursor, sleep 0.2, loop.
PageMore_KeepsParams ==
  /\ ppc = "loop"
  /\ pc = "returned"
  /\ ~Falsy(outcome.body.pagination_key)
  /\ results' = results \o ItemsOf(outcome.body)
  /\ got' = Append(got, outcome.body)
  /\ params' = params
  /\ GetFrameDropped
  /\ UNCHANGED <<ppc, orig, sent, presult>>

PageMore ==
  /\ ppc = "loop"
  /\ pc = "returned"
  /\ ~Falsy(outcome.body.pagination_key)
  /\ results' = results \o ItemsOf(outcome.body)
  /\ got' = Append(got, outcome.body)
  /\ params' = MergeKey(params, outcome.body.pagination_key)
  /\ GetFrameDropped
  /\ UNCHANGED <<ppc, orig, sent, presult>>

\* Lines 105-108, 111: a page without a cursor; extend, break, return results.
PageLast ==
  /\ ppc = "loop"
  /\ pc = "returned"
  /\ Falsy(outcome.body.pagination_key)
  /\ results' = results \o ItemsOf(outcome.body)
  /\ got' = Append(got, outcome.body)
  /\ ppc' = "done"
  /\ presult' = [kind |-> "list", items |-> results', exc |-> NoExc]
  /\ UNCHANGED <<orig, params, sent>>
  /\ UNCHANGED getLocals

\* Line 104 with the error of a page caught and the pages received returned.
PageFailed_ReturnsPartial ==
  /\ ppc = "loop"
  /\ pc = "raised"
  /\ ppc' = "done"
  /\ presult' = [kind |-> "list", items |-> results, exc |-> NoExc]
  /\ UNCHANGED <<orig, params, results, sent, got>>
  /\ UNCHANGED getLocals

\* Line 104: self._get raised; nothing catches it, results is dropped.
PageFailed ==
  /\ ppc = "loop"
  /\ pc = "raised"
  /\ ppc' = "raised"
  /\ presult' = [kind |-> "raise", items |-> <<>>, exc |-> outcome.exc]
  /\ UNCHANGED <<orig, params, results, sent, got>>
  /\ UNCHANGED getLocals

----------------------------------------------------------------------------

FetchInit ==
  /\ pc = "idle"
  /\ attempt = 0
  /\ resp = NoResp
  /\ last_exc = NoExc
  /\ wait = 0
  /\ nreq = 0
  /\ n429 = 0
  /\ outcome = [kind |-> "none", body |-> NoBody, exc |-> NoExc]
  /\ ppc = "idle"
  /\ orig = EmptyDict
  /\ params = EmptyDict
  /\ results = <<>>
  /\ sent = <<>>
  /\ got = <<>>
  /\ presult = [kind |-> "none", items |-> <<>>, exc |-> NoExc]

FetchNext ==
  \/ \E p \in CallerParams : Call(p)
  \/ GetBegin
  \/ \E body \in Bodies : Respond200(body)
  \/ Respond429
  \/ \E status \in ClientErrorStatuses, text \in ErrorTexts :
       RespondClientError(status, text)
  \/ \E status \in ServerErrorStatuses : RespondServerError(status)
  \/ \E kind \in TransportFailures : TransportFailure(kind)
  \/ NextAttempt
  \/ Exhausted
  \/ PageMore
  \/ PageLast
  \/ PageFailed

----------------------------------------------------------------------------
(* JQuantsClient._keep_latest_statements *)

\* Identifiers are strings of characters, kept as sequences so that slicing
\* (str[:4]) and len() are what they are in the code.
Code1234 == <<"1", "2", "3", "4">>
Code12340 == <<"1", "2", "3", "4", "0">>
Code12345 == <<"1", "2", "3", "4", "5">>
StatementCodes == {Code1234, Code12340, Code12345}

\* TypeOfCurrentPeriod values: the four _PERIOD_PRIORITY knows and one it does not.
PeriodTypes == {"FY", "2Q", "Q3", "Q1", "1Q"}

\* DisclosedDate values as the service sends them.
RawDates == {"2024-05-10", "2024-08-09"}

\* pd.NaT
NaT == -1

\* pd.to_datetime(..., errors="coerce"): the day a string names, NaT for a string
\* that is no date.
ToDatetime(str) ==
  CASE str = "2024-05-10" -> 20240510
    [] str = "2024-08-09" -> 20240809
    [] str = "2023-05-10" -> 20230510
    [] str = "2022-05-10" -> 20220510
    [] str = "2022-11-10" -> 20221110
    [] OTHER -> NaT

\* _PERIOD_PRIORITY.get(str(x), 99)
PeriodPriority(x) ==
  CASE x = "FY" -> 0
    [] x = "2Q" -> 1
    [] x = "Q3" -> 2
    [] x = "Q1" -> 3
    [] OTHER -> 99

StatementRows ==
  [Code : StatementCodes, TypeOfCurrentPeriod : PeriodTypes, DisclosedDate : RawDates]

\* Lines 240-243: the two columns the function (over)writes.
WithSortKeys(row) ==
  [Code |-> row.Code,
   TypeOfCurrentPeriod |-> row.TypeOfCurrentPeriod,
   DisclosedDate |-> ToDatetime(row.DisclosedDate),
   _period_priority |-> PeriodPriority(row.TypeOfCurrentPeriod)]

\* Line 251: drop(columns=["_period_priority"])
WithoutSortKeys(row) ==
  [Code |-> row.Code,
   TypeOfCurrentPeriod |-> row.TypeOfCurrentPeriod,
   DisclosedDate |-> row.DisclosedDate]

\* Lines 245-248: row a sorts strictly before row b under
\* ["_period_priority", "DisclosedDate"], ascending=[True, False], NaT last.
SortsBefore_DateAscending(a, b) ==
  \/ a._period_priority < b._period_priority
  \/ /\ a._period_priority = b._period_priority
     /\ a.DisclosedDate # NaT
     /\ (b.DisclosedDate = NaT \/ a.DisclosedDate < b.DisclosedDate)

SortsBefore(a, b) ==
  \/ a._period_priority < b._period_priority
  \/ /\ a._period_priority = b._period_priority
     /\ a.DisclosedDate # NaT
     /\ (b.DisclosedDate = NaT \/ a.DisclosedDate > b.DisclosedDate)

\* x inserted into a sorted sequence behind every row it does not sort strictly
\* before: rows with equal keys keep their input order (the multi-column
\* sort_values is a stable lexsort).
RECURSIVE InsertSorted(_, _)
InsertSorted(x, sorted) ==
  IF sorted = <<>> THEN <<x>>
  ELSE IF SortsBefore(x, Head(sorted)) THEN <<x>> \o sorted
  ELSE <<Head(sorted)>> \o InsertSorted(x, Tail(sorted))

RECURSIVE SortValues(_)
SortValues(rows) ==
  IF rows = <<>> THEN <<>>
  ELSE InsertSorted(rows[Len(rows)], SortValues(SubSeq(rows, 1, Len(rows) - 1)))

\* Line 250: drop_duplicates(subset=[code_col], keep="first")
RECURSIVE DropDuplicates(_, _)
DropDuplicates(rows, seen) ==
  IF rows = <<>> THEN <<>>
  ELSE IF Head(rows).Code \in seen THEN DropDuplicates(Tail(rows), seen)
  ELSE <<Head(rows)>> \o DropDuplicates(Tail(rows), seen \cup {Head(rows).Code})

Map(F(_), seq) == [i \in DOMAIN seq |-> F(seq[i])]

\* Lines 234-252.
KeepLatestStatements(df) ==
  IF df = <<>> THEN df
  ELSE Map(WithoutSortKeys, DropDuplicates(SortValues(Map(WithSortKeys, df)), {}))

\* df = self._keep_latest_statements(df)
Reduce ==
  /\ red_pc = "input"
  /\ red_pc' = "done"
  /\ reduced' = KeepLatestStatements(stmts)
  /\ UNCHANGED stmts

RedInit ==
  /\ red_pc = "input"
  /\ stmts \in UNION {[1..n -> StatementRows] : n \in 0..MaxStmts}
  /\ reduced = <<>>

RedIdle ==
  /\ red_pc = "off"
  /\ stmts = <<>>
  /\ reduced = <<>>

----------------------------------------------------------------------------
(* JQuantsScreener._has_no_dividend_cut *)

\* div_cut_years: int = 3 (JQuantsScreener.__init__)
DefaultDivCutYears == 3

\* float("nan")
NaN == -1

\* ResultDividendPerShareAnnual as the service sends it: a number as a string,
\* "" when not reported; Absent when the row holds no such key.
RawDps == {"10", "12", "", Absent}
HistoryDates == {"2022-05-10", "2023-05-10", "2024-05-10"}
HistoryPeriods == {"FY", "2Q"}
HistoryRows ==
  [TypeOfCurrentPeriod : HistoryPeriods, DisclosedDate : HistoryDates,
   ResultDividendPerShareAnnual : RawDps]

\* The configured look-back years (SCREEN_DIVIDEND_CUT_YEARS, default 3).
LookBackYears == {2, 3}

\* pd.to_numeric(..., errors="coerce")
ToNumeric(str) ==
  CASE str = "10" -> 10
    [] str = "12" -> 12
    [] str = "50" -> 50
    [] str = "52" -> 52
    [] str = "55" -> 55
    [] OTHER -> NaN

\* Lines 459-460: stmt_df[stmt_df["TypeOfCurrentPeriod"] == "FY"]
IsAnnual(row) == row.TypeOfCurrentPeriod = "FY"
AnnualRows(df) == SelectSeq(df, IsAnnual)

\* Line 465: the DataFrame has the column when some row holds the key.
HasDpsColumn(df) ==
  \E i \in DOMAIN df : df[i].ResultDividendPerShareAnnual # Absent

\* Lines 468-470: the renamed and converted columns.
Converted(row) ==
  [date |-> ToDatetime(row.DisclosedDate),
   dps |-> ToNumeric(row.ResultDividendPerShareAnnual)]

\* Line 471: row a sorts strictly before row b under sort_values("date",
\* ascending=False), NaT last.
LaterDate_Ascending(a, b) ==
  /\ a.date # NaT
  /\ (b.date = NaT \/ a.date < b.date)

LaterDate(a, b) ==
  /\ a.date # NaT
  /\ (b.date = NaT \/ a.date > b.date)

\* Rows with equal dates keep their input order (the argsort of so few rows is
\* an insertion sort).
RECURSIVE InsertByDate(_, _)
InsertByDate(x, sorted) ==
  IF sorted = <<>> THEN <<x>>
  ELSE IF LaterDate(x, Head(sorted)) THEN <<x>> \o sorted
  ELSE <<Head(sorted)>> \o InsertByDate(x, Tail(sorted))

RECURSIVE SortByDate(_)
SortByDate(rows) ==
  IF rows = <<>> THEN <<>>
  ELSE InsertByDate(rows[Len(rows)], SortByDate(SubSeq(rows, 1, Len(rows) - 1)))

\* Lines 468-471.
SortedAnnual(df) == SortByDate(Map(Converted, AnnualRows(df)))

\* Line 474: head(n)
FirstRows(rows, n) == SubSeq(rows, 1, IF Len(rows) < n THEN Len(rows) ELSE n)

\* Line 475: recent[dps_col].dropna().tolist()
IsUsable(row) == row.dps # NaN
DpsColumn(row) == row.dps
DpsValues(df, years) ==
  Map(DpsColumn, SelectSeq(FirstRows(SortedAnnual(df), years), IsUsable))

\* Lines 481-485.
NoCutIn_NewestPairOnly(values) ==
  ~(values[1] < values[2])

NoCutIn(values) ==
  \A i \in 1..(Len(values) - 1) : ~(values[i] < values[i + 1])

\* Lines 455-485, given the frame get_statements_for_code returned.
HasNoDividendCut(df, years) ==
  IF df = <<>> THEN TRUE
  ELSE IF AnnualRows(df) = <<>> THEN TRUE
  ELSE IF ~HasDpsColumn(df) THEN TRUE
  ELSE IF Len(DpsValues(df, years)) < 2 THEN TRUE
  ELSE NoCutIn(DpsValues(df, years))

\* Whether the function gets as far as line 468.
ReachesSort(df) == df # <<>> /\ AnnualRows(df) # <<>> /\ HasDpsColumn(df)

\* no_cut = self._has_no_dividend_cut(code), the fetch having succeeded.
Evaluate ==
  /\ div_pc = "input"
  /\ div_pc' = "done"
  /\ annual' = IF ReachesSort(stmt_df) THEN SortedAnnual(stmt_df) ELSE <<>>
  /\ dps_values' = IF ReachesSort(stmt_df)
                   THEN DpsValues(stmt_df, div_cut_years) ELSE <<>>
  /\ no_cut' = HasNoDividendCut(stmt_df, div_cut_years)
  /\ UNCHANGED <<div_cut_years, stmt_df>>

DivInit ==
  /\ div_pc = "input"
  /\ div_cut_years \in LookBackYears
  /\ stmt_df \in UNION {[1..n -> HistoryRows] : n \in 0..MaxHistory}
  /\ annual = <<>>
  /\ dps_values = <<>>
  /\ no_cut = TRUE

DivIdle ==
  /\ div_pc = "off"
  /\ div_cut_years = DefaultDivCutYears
  /\ stmt_df = <<>>
  /\ annual = <<>>
  /\ dps_values = <<>>
  /\ no_cut = TRUE

----------------------------------------------------------------------------
(* Numbers of the merged table: float64 cells *)

\* A cell is a rational n/d (d > 0), NaN, +inf or -inf. Amounts of money above
\* the 32-bit range are kept in thousands: shares_outstanding in thousands of
\* shares, market_cap and market_cap_min in thousands of yen.
Num(n, d) == [k |-> "num", n |-> n, d |-> d]
NaNCell == [k |-> "nan", n |-> 0, d |-> 1]
InfCell == [k |-> "inf", n |-> 0, d |-> 1]
NegInfCell == [k |-> "-inf", n |-> 0, d |-> 1]
\* A JSON null, and a string that is no number ("-", "").
NullCell == [k |-> "null", n |-> 0, d |-> 1]
JunkCell == [k |-> "junk", n |-> 0, d |-> 1]

\* pd.isna
IsNa(c) == c.k \in {"nan", "null"}

\* pd.to_numeric(df[col], errors="coerce") (line 388)
ToNumericCell(c) == IF c.k \in {"null", "junk"} THEN NaNCell ELSE c

\* a.combine_first(b)
CombineFirst(a, b) == IF IsNa(a) THEN b ELSE a

\* float64 a / b for cells that are numbers or NaN
FDiv(a, b) ==
  IF a.k # "num" \/ b.k # "num" THEN NaNCell
  ELSE IF b.n = 0
       THEN (IF a.n > 0 THEN InfCell ELSE IF a.n < 0 THEN NegInfCell ELSE NaNCell)
  ELSE IF b.n > 0 THEN Num(a.n * b.d, a.d * b.n)
  ELSE Num(-(a.n * b.d), -(a.d * b.n))

\* float64 a * b for cells that are numbers or NaN
FMul(a, b) ==
  IF a.k # "num" \/ b.k # "num" THEN NaNCell
  ELSE Num(a.n * b.n, a.d * b.d)

\* float64 a <= b and a >= b, b a number: False for NaN
FLe(a, b) ==
  CASE a.k = "num" -> a.n * b.d <= b.n * a.d
    [] a.k = "-inf" -> TRUE
    [] OTHER -> FALSE
FGe(a, b) ==
  CASE a.k = "num" -> a.n * b.d >= b.n * a.d
    [] a.k = "inf" -> TRUE
    [] OTHER -> FALSE

----------------------------------------------------------------------------
(* JQuantsScreener: the configuration (lines 262-274, src/config.py 20-23) *)

pbr_max == Num(3, 2)
yield_min == Num(5, 2)
\* 10_000_000_000 yen, in thousands of yen
market_cap_min == Num(10000000, 1)

----------------------------------------------------------------------------
(* JQuantsScreener._merge_all *)

\* Lines 369: astype(str).str.strip().str[:4] (listed, prices)
Leading4(code) == SubSeq(code, 1, IF Len(code) < 4 THEN Len(code) ELSE 4)
\* Lines 371-374 with the statements cut like the other sources (x[:4]).
StatementCode_Leading4(code) ==
  SubSeq(code, 1, IF Len(code) < 4 THEN Len(code) ELSE 4)

\* Lines 371-374: x[:4] if len(x) == 5 else x (statements)
StatementCode(code) == IF Len(code) = 5 THEN SubSeq(code, 1, 4) ELSE code

\* Lines 328-336, 369: listed with its renamed, normalised code. The columns
\* only carried along (sector17, sector33, market, volume, period_type,
\* disclosed_date) are left out of the rows.
ListedRow(row) == [code |-> Leading4(row.Code), name |-> row.CompanyName]

\* Lines 338-344, 359-362, 369: prices with price = adj_close.combine_first(close)
PriceRow(row) ==
  [code |-> Leading4(row.Code),
   price |-> CombineFirst(row.AdjustmentClose, row.Close)]

\* Lines 346-356, 370-374
StatementRow(row) ==
  [code |-> StatementCode(row.Code),
   bps |-> row.BookValuePerShare,
   dps_result |-> row.ResultDividendPerShareAnnual,
   dps_forecast |-> row.ForecastDividendPerShareAnnual,
   shares_outstanding |->
     row.NumberOfIssuedAndOutstandingSharesAtTheEndOfFiscalYearIncludingTreasuryStock]

SameCode(code, rows) == SelectSeq(rows, LAMBDA r : r.code = code)

\* Lines 377-380 as an inner join (how="inner").
RECURSIVE JoinPrices_Inner(_, _)
JoinPrices_Inner(left, right) ==
  IF left = <<>> THEN <<>>
  ELSE LET l == Head(left)
           matches == SameCode(l.code, right)
       IN [i \in DOMAIN matches |->
             [code |-> l.code, name |-> l.name, price |-> matches[i].price]]
            \o JoinPrices_Inner(Tail(left), right)

\* Lines 377-380: listed.merge(prices, on="code", how="left")
RECURSIVE JoinPrices(_, _)
JoinPrices(left, right) ==
  IF left = <<>> THEN <<>>
  ELSE LET l == Head(left)
           matches == SameCode(l.code, right)
           rows == IF matches = <<>>
                   THEN <<[code |-> l.code, name |-> l.name, price |-> NaNCell]>>
                   ELSE [i \in DOMAIN matches |->
                           [code |-> l.code, name |-> l.name,
                            price |-> matches[i].price]]
       IN rows \o JoinPrices(Tail(left), right)

\* Lines 380-384: .merge(statements, on="code", how="left")
RECURSIVE JoinStatements(_, _)
JoinStatements(left, right) ==
  IF left = <<>> THEN <<>>
  ELSE LET l == Head(left)
           matches == SameCode(l.code, right)
           rows == IF matches = <<>>
                   THEN <<[code |-> l.code, name |-> l.name, price |-> l.price,
                           bps |-> NaNCell, dps_result |-> NaNCell,
                           dps_forecast |-> NaNCell,
                           shares_outstanding |-> NaNCell]>>
                   ELSE [i \in DOMAIN matches |->
                           [code |-> l.code, name |-> l.name, price |-> l.price,
                            bps |-> matches[i].bps,
                            dps_result |-> matches[i].dps_result,
                            dps_forecast |-> matches[i].dps_forecast,
                            shares_outstanding |-> matches[i].shares_outstanding]]
       IN rows \o JoinStatements(Tail(left), right)

\* Lines 386-396: numeric conversion and the derived columns.
Derived(row) ==
  LET price == ToNumericCell(row.price)
      bps == ToNumericCell(row.bps)
      dps_result == ToNumericCell(row.dps_result)
      dps_forecast == ToNumericCell(row.dps_forecast)
      shares_outstanding == ToNumericCell(row.shares_outstanding)
      dps == CombineFirst(dps_result, dps_forecast)
  IN [code |-> row.code, name |-> row.name,
      price |-> price, bps |-> bps,
      dps_result |-> dps_result, dps_forecast |-> dps_forecast,
      shares_outstanding |-> shares_outstanding,
      dps |-> dps,
      pbr |-> FDiv(price, bps),
      div_yield |-> IF price.k = "num" /\ price.n > 0
                    THEN FMul(FDiv(dps, price), Num(100, 1)) ELSE NaNCell,
      market_cap |-> FMul(shares_outstanding, price)]

\* Lines 319-398
MergeAll(l, p, st) ==
  Map(Derived,
      JoinStatements(JoinPrices(Map(ListedRow, l), Map(PriceRow, p)),
                     Map(StatementRow, st)))

----------------------------------------------------------------------------
(* JQuantsScreener._apply_filters *)

Digits == {"0", "1", "2", "3", "4", "5", "6", "7", "8", "9"}
\* Line 414: str.match(r"^\d{4}$")
FourDigits(code) == Len(code) = 4 /\ \A i \in DOMAIN code : code[i] \in Digits

\* Lines 408-414 with the valuation ratio compared strictly (pbr < pbr_max).
PassesFilters_StrictRatio(row) ==
  /\ ~IsNa(row.price) /\ ~IsNa(row.pbr)
  /\ ~IsNa(row.div_yield) /\ ~IsNa(row.market_cap)
  /\ ~FGe(row.pbr, pbr_max)
  /\ FGe(row.div_yield, yield_min)
  /\ FGe(row.market_cap, market_cap_min)
  /\ FourDigits(row.code)

\* Lines 408-414
PassesFilters(row) ==
  /\ ~IsNa(row.price) /\ ~IsNa(row.pbr)
  /\ ~IsNa(row.div_yield) /\ ~IsNa(row.market_cap)
  /\ FLe(row.pbr, pbr_max)
  /\ FGe(row.div_yield, yield_min)
  /\ FGe(row.market_cap, market_cap_min)
  /\ FourDigits(row.code)

ApplyFilters(df) == SelectSeq(df, PassesFilters)

----------------------------------------------------------------------------
(* JQuantsScreener.run *)

Code7203 == <<"7", "2", "0", "3">>
Code72030 == <<"7", "2", "0", "3", "0">>

\* What the service answers in the modelled runs.
ListedTables ==
  {<<[Code |-> Code1234, CompanyName |-> "A"]>>,
   <<[Code |-> Code1234, CompanyName |-> "A"],
     [Code |-> Code7203, CompanyName |-> "B"]>>,
   <<[Code |-> Code1234, CompanyName |-> "A"],
     [Code |-> <<"1", "3", "0", "A", "0">>, CompanyName |-> "C"],
     [Code |-> Code7203, CompanyName |-> "B"]>>}

Quote(code, adj, close) ==
  [Code |-> code, AdjustmentClose |-> adj, Close |-> close]
PriceTables ==
  {<<>>,
   <<Quote(Code1234, Num(1000, 1), Num(990, 1))>>,
   <<Quote(Code7203, Num(3000, 1), Num(3000, 1)),
     Quote(Code1234, NullCell, Num(1000, 1))>>,
   <<Quote(Code1234, Num(0, 1), Num(1000, 1)),
     Quote(Code7203, NullCell, NullCell)>>}

Statement(code, bps, result, forecast, shares) ==
  [Code |-> code, BookValuePerShare |-> bps,
   ResultDividendPerShareAnnual |-> result,
   ForecastDividendPerShareAnnual |-> forecast,
   NumberOfIssuedAndOutstandingSharesAtTheEndOfFiscalYearIncludingTreasuryStock |->
     shares]
\* 1234: book value 833.33, dividend 30, 20,000 thousand shares
Statement1234 ==
  Statement(Code12340, Num(2500, 3), Num(30, 1), NullCell, Num(20000, 1))
\* the same, the dividend only forecast
Statement1234Forecast ==
  Statement(Code12340, Num(2500, 3), JunkCell, Num(30, 1), Num(20000, 1))
\* the same company with no book value reported
Statement1234NoBps ==
  Statement(Code12340, JunkCell, Num(30, 1), NullCell, Num(20000, 1))
\* 7203: book value 1500, dividend 60
Statement7203 ==
  Statement(Code72030, Num(1500, 1), Num(60, 1), NullCell, Num(50000, 1))
\* 7203 with book value 2500 and dividend 90
Statement7203Cheap ==
  Statement(Code72030, Num(2500, 1), Num(90, 1), NullCell, Num(50000, 1))
StatementTables ==
  {<<Statement1234>>, <<Statement1234Forecast>>, <<Statement1234NoBps>>,
   <<Statement7203, Statement1234>>, <<Statement1234, Statement7203Cheap>>}

Disclosure(period, date, dps) ==
  [TypeOfCurrentPeriod |-> period, DisclosedDate |-> date,
   ResultDividendPerShareAnnual |-> dps]
\* Statement histories of one identifier, in the order the service lists them.
Histories ==
  {<<>>,
   <<Disclosure("FY", "2022-05-10", "55"), Disclosure("FY", "2023-05-10", "52"),
     Disclosure("FY", "2024-05-10", "50")>>,
   <<Disclosure("FY", "2022-05-10", "50"), Disclosure("2Q", "2022-11-10", ""),
     Disclosure("FY", "2023-05-10", "52"), Disclosure("FY", "2024-05-10", "55")>>,
   <<Disclosure("FY", "2024-05-10", "52"), Disclosure("FY", "2023-05-10", "")>>}

NoDate == "<none>"
FetchFailed == <<Disclosure("<error>", "", "")>>

\* Lines 289-290: listed = self.client.get_listed_info()
GetListedInfo(table) ==
  /\ run_pc = "listed"
  /\ listed' = table
  /\ run_pc' = "trading_date"
  /\ UNCHANGED <<subscription_end, latest_date, prices, statements,
                 holdings_codes, merged, candidates, fetched, check_results,
                 run_result>>

\* Lines 292-293: latest_date = self.client.get_latest_trading_date(); the
\* locator may have recorded the subscription boundary (line 165).
GetLatestTradingDate(boundary, date) ==
  /\ run_pc = "trading_date"
  /\ subscription_end' = boundary
  /\ latest_date' = date
  /\ run_pc' = "prices"
  /\ UNCHANGED <<listed, prices, statements, holdings_codes, merged, candidates,
                 fetched, check_results, run_result>>

\* Line 295: prices = self.client.get_daily_quotes(latest_date)
GetDailyQuotes(table) ==
  /\ run_pc = "prices"
  /\ prices' = table
  /\ run_pc' = "statements"
  /\ UNCHANGED <<subscription_end, listed, latest_date, statements,
                 holdings_codes, merged, candidates, fetched, check_results,
                 run_result>>

\* Line 298: statements = self.client.collect_recent_statements(days_back=120)
CollectRecentStatements(table) ==
  /\ run_pc = "statements"
  /\ statements' = table
  /\ run_pc' = "screen"
  /\ UNCHANGED <<subscription_end, listed, latest_date, prices, holdings_codes,
                 merged, candidates, fetched, check_results, run_result>>

\* Lines 290-298 with the error of a step caught and an empty result returned.
StepRaises_ReturnsEmpty ==
  /\ run_pc \in {"listed", "trading_date", "prices", "statements"}
  /\ run_result' = [kind |-> "return", at |-> run_pc,
                    holdings_df |-> <<>>, candidates |-> <<>>]
  /\ run_pc' = "returned"
  /\ UNCHANGED <<subscription_end, listed, latest_date, prices, statements,
                 holdings_codes, merged, candidates, fetched, check_results>>

\* Lines 290, 293, 295, 298: the call of the step raises (a fetch error, no
\* trading date in 14 days, no statement collected); run does not catch it.
StepRaises ==
  /\ run_pc \in {"listed", "trading_date", "prices", "statements"}
  /\ run_result' = [kind |-> "raise", at |-> run_pc,
                    holdings_df |-> <<>>, candidates |-> <<>>]
  /\ run_pc' = "raised"
  /\ UNCHANGED <<subscription_end, listed, latest_date, prices, statements,
                 holdings_codes, merged, candidates, fetched, check_results>>

\* Lines 301-302: merged = self._merge_all(...); candidates = self._apply_filters(merged)
Screen ==
  /\ run_pc = "screen"
  /\ merged' = MergeAll(listed, prices, statements)
  /\ candidates' = ApplyFilters(merged')
  /\ run_pc' = "dividends"
  /\ UNCHANGED <<subscription_end, listed, latest_date, prices, statements,
                 holdings_codes, fetched, check_results, run_result>>

\* Lines 432-440 with every fetched history taken as free of cuts.
CheckDividend_AlwaysKept(history) ==
  /\ run_pc = "dividends"
  /\ Len(check_results) < Len(candidates)
  /\ fetched' = Append(fetched, history)
  /\ check_results' = Append(check_results, TRUE)
  /\ UNCHANGED <<run_pc, subscription_end, listed, latest_date, prices,
                 statements, holdings_codes, merged, candidates, run_result>>

\* Lines 432-440: the next candidate's history is fetched and evaluated.
CheckDividend(history) ==
  /\ run_pc = "dividends"
  /\ Len(check_results) < Len(candidates)
  /\ fetched' = Append(fetched, history)
  /\ check_results' = Append(check_results,
                             HasNoDividendCut(history, DefaultDivCutYears))
  /\ UNCHANGED <<run_pc, subscription_end, listed, latest_date, prices,
                 statements, holdings_codes, merged, candidates, run_result>>

\* Lines 441-443 with the candidate dropped on an error.
CheckDividendFails_Dropped ==
  /\ run_pc = "dividends"
  /\ Len(check_results) < Len(candidates)
  /\ fetched' = Append(fetched, FetchFailed)
  /\ check_results' = Append(check_results, FALSE)
  /\ UNCHANGED <<run_pc, subscription_end, listed, latest_date, prices,
                 statements, holdings_codes, merged, candidates, run_result>>

\* Lines 441-443: fetching or evaluating raised; the candidate is kept.
CheckDividendFails ==
  /\ run_pc = "dividends"
  /\ Len(check_results) < Len(candidates)
  /\ fetched' = Append(fetched, FetchFailed)
  /\ check_results' = Append(check_results, TRUE)
  /\ UNCHANGED <<run_pc, subscription_end, listed, latest_date, prices,
                 statements, holdings_codes, merged, candidates, run_result>>

\* Line 445 with the mask ignored.
Kept_Everything(df, flags) == df

\* Line 445: df[results]
Kept(df, flags) ==
  LET idx == {i \in DOMAIN df : flags[i]}
      F[i \in 0..Len(df)] ==
        IF i = 0 THEN <<>>
        ELSE IF i \in idx THEN Append(F[i - 1], df[i]) ELSE F[i - 1]
  IN F[Len(df)]

\* Line 310: merged[merged["code"].isin(holdings_codes)]
HoldingsOf(df, codes) ==
  SelectSeq(df, LAMBDA r : \E i \in DOMAIN codes : codes[i] = r.code)

\* Lines 305-313 (and 426-427, 445-447): the check is over (at once for an
\* empty frame); run returns (holdings_df, candidates).
Return ==
  /\ run_pc = "dividends"
  /\ Len(check_results) = Len(candidates)
  /\ run_result' = [kind |-> "return", at |-> "return",
                    holdings_df |-> HoldingsOf(merged, holdings_codes),
                    candidates |-> Kept(candidates, check_results)]
  /\ run_pc' = "returned"
  /\ UNCHANGED <<subscription_end, listed, latest_date, prices, statements,
                 holdings_codes, merged, candidates, fetched, check_results>>

RunInit ==
  /\ run_pc = "listed"
  /\ subscription_end = NoDate
  /\ listed = <<>>
  /\ latest_date = NoDate
  /\ prices = <<>>
  /\ statements = <<>>
  /\ holdings_codes \in {<<>>, <<Code1234>>}
  /\ merged = <<>>
  /\ candidates = <<>>
  /\ fetched = <<>>
  /\ check_results = <<>>
  /\ run_result = [kind |-> "none", at |-> "none",
                   holdings_df |-> <<>>, candidates |-> <<>>]

\* run is not in progress; the session field is set apart.
RunRestIdle ==
  /\ run_pc = "off"
  /\ listed = <<>>
  /\ latest_date = NoDate
  /\ prices = <<>>
  /\ statements = <<>>
  /\ holdings_codes = <<>>
  /\ merged = <<>>
  /\ candidates = <<>>
  /\ fetched = <<>>
  /\ check_results = <<>>
  /\ run_result = [kind |-> "none", at |-> "none",
                   holdings_df |-> <<>>, candidates |-> <<>>]

RunIdle == subscription_end = NoDate /\ RunRestIdle

RunNext ==
  \/ \E table \in ListedTables : GetListedInfo(table)
  \/ \E boundary \in {NoDate, "2024-05-10"}, date \in {"20240508", "20240510"} :
       GetLatestTradingDate(boundary, date)
  \/ \E table \in PriceTables : GetDailyQuotes(table)
  \/ \E table \in StatementTables : CollectRecentStatements(table)
  \/ StepRaises
  \/ Screen
  \/ \E history \in Histories : CheckDividend(history)
  \/ CheckDividendFails
  \/ Return

----------------------------------------------------------------------------
(* _merge_all and _apply_filters over tables of the three sources *)

Code123 == <<"1", "2", "3">>
Code130A == <<"1", "3", "0", "A">>
Code130A0 == <<"1", "3", "0", "A", "0">>
Code123456 == <<"1", "2", "3", "4", "5", "6">>

\* One listing, one quote and one statement whose identifiers and values vary,
\* next to the rows of 7203 (price 3000, book value 1500, dividend 60).
VariedListings ==
  {[Code |-> c, CompanyName |-> "A"] :
     c \in {Code1234, Code12340, Code130A, Code123}}
VariedQuotes ==
  {Quote(c, adj, close) :
     c \in {Code1234, Code123456, Code130A},
     adj \in {NullCell, Num(0, 1), Num(-1000, 1), Num(1000, 1)},
     close \in {NullCell, Num(1000, 1)}}
VariedStatements ==
  {Statement(c, bps, result, forecast, shares) :
     c \in {Code1234, Code12340, Code123456, Code130A0},
     bps \in {JunkCell, Num(0, 1), Num(-500, 1), Num(2000, 3), Num(500, 1)},
     result \in {JunkCell, Num(25, 1), Num(30, 1)},
     forecast \in {NullCell, Num(30, 1)},
     shares \in {NullCell, Num(10000, 1), Num(9999, 1)}}
Listing7203 == [Code |-> Code7203, CompanyName |-> "B"]
Quote7203 == Quote(Code7203, Num(3000, 1), Num(3000, 1))

\* The three frames handed to _merge_all (line 301), the statements as
\* _keep_latest_statements leaves them: one row per raw code.
TablesInit ==
  /\ run_pc = "screen"
  /\ \E row \in VariedListings : listed \in {<<row>>, <<Listing7203, row>>}
  /\ \E row \in VariedQuotes : prices = <<Quote7203, row>>
  /\ \E row \in VariedStatements : statements = <<row, Statement7203>>
  /\ subscription_end = NoDate
  /\ latest_date = "20240510"
  /\ holdings_codes = <<>>
  /\ merged = <<>>
  /\ candidates = <<>>
  /\ fetched = <<>>
  /\ check_results = <<>>
  /\ run_result = [kind |-> "none", at |-> "none",
                   holdings_df |-> <<>>, candidates |-> <<>>]

----------------------------------------------------------------------------
(* JQuantsClient.get_latest_trading_date *)

\* `for i in range(14)`
WindowDays_OneMore == 14 + 1
WindowDays == 14

\* Dates are day numbers of 2024 (1 January = 0); strftime("%Y%m%d") and
\* timedelta(days=i) act on them as on the dates.
\* datetime.now(JST) of the modelled runs: 10 April 2024.
Today == 100
NoDay == -1

\* datetime.strptime(s, "%Y-%m-%d")
Strptime(str) ==
  CASE str = "2024-02-01" -> 31
    [] str = "2024-03-01" -> 60
    [] str = "2024-04-10" -> 100
    [] OTHER -> NoDay

\* The bodies of the error responses to the probe of today.
BoundaryTexts ==
  {"Your subscription covers the following dates: 2024-02-01 ~ 2024-03-01",
   "Your subscription covers the following dates: 2024-03-01 ~ 2024-02-01",
   "Your subscription ended on 2024-03-01",
   "bad request"}

\* _re.findall(r"\d{4}-\d{2}-\d{2}", e.response.text)
FindAllDates(text) ==
  CASE text = "Your subscription covers the following dates: 2024-02-01 ~ 2024-03-01"
         -> <<"2024-02-01", "2024-03-01">>
    [] text = "Your subscription covers the following dates: 2024-03-01 ~ 2024-02-01"
         -> <<"2024-03-01", "2024-02-01">>
    [] text = "Your subscription ended on 2024-03-01" -> <<"2024-03-01">>
    [] OTHER -> <<>>

\* The exceptions _get raises to a probe.
ProbeClientErrors ==
  {HTTPError(400, text) : text \in BoundaryTexts}
    \cup {HTTPError(404, "Your subscription covers the following dates: 2024-02-01 ~ 2024-03-01")}
ProbeExhausted == RuntimeError(TransportError("Timeout"))
NoProbe == Exc("-", 0, "", NoCause)
ProbeData == Exc("data", 0, "", NoCause)
ProbeEmpty == Exc("empty", 0, "", NoCause)

\* The service's price data by date: none, every day, or all but two days of
\* each week and nothing before 24 February (day 54), which it answers with a
\* client error.
Calendars == {"closed", "open", "sparse"}
Holds(cal, day) ==
  CASE cal = "closed" -> FALSE
    [] cal = "open" -> TRUE
    [] OTHER -> day >= 54 /\ (day % 7) \notin {4, 5}
Refused(cal, day) == cal = "sparse" /\ day < 54

\* Lines 152-154: the probe of today returns quotes; today is returned.
InitialData ==
  /\ loc_pc = "initial"
  /\ Holds(calendar, Today)
  /\ first_probe' = ProbeData
  /\ loc_result' = [kind |-> "return", date |-> Today, from |-> NoDay,
                    detail |-> <<>>]
  /\ loc_pc' = "returned"
  /\ UNCHANGED <<calendar, search_from, loc_i, errors, probed, subscription_end>>

\* Lines 152-153, 171: the probe of today returns no quotes.
InitialEmpty ==
  /\ loc_pc = "initial"
  /\ ~Holds(calendar, Today)
  /\ first_probe' = ProbeEmpty
  /\ loc_pc' = "search"
  /\ UNCHANGED <<calendar, search_from, loc_i, errors, probed, loc_result,
                 subscription_end>>

\* Lines 155-166 with found[0] taken as the boundary.
InitialBoundary_FirstDate(exc) ==
  /\ loc_pc = "initial"
  /\ exc.type = "HTTPError" /\ exc.status = 400
  /\ Len(FindAllDates(exc.text)) >= 2
  /\ first_probe' = exc
  /\ subscription_end' = FindAllDates(exc.text)[1]
  /\ search_from' = Strptime(FindAllDates(exc.text)[1])
  /\ loc_pc' = "search"
  /\ UNCHANGED <<calendar, loc_i, errors, probed, loc_result>>

\* Lines 155-166: the probe of today raises an HTTPError of status 400 whose
\* text holds two dates or more; the last one found becomes the boundary.
InitialBoundary(exc) ==
  /\ loc_pc = "initial"
  /\ exc.type = "HTTPError" /\ exc.status = 400
  /\ Len(FindAllDates(exc.text)) >= 2
  /\ first_probe' = exc
  /\ subscription_end' = FindAllDates(exc.text)[Len(FindAllDates(exc.text))]
  /\ search_from' = Strptime(FindAllDates(exc.text)[Len(FindAllDates(exc.text))])
  /\ loc_pc' = "search"
  /\ UNCHANGED <<calendar, loc_i, errors, probed, loc_result>>

\* Lines 155-168: any other exception of the probe of today is dropped.
InitialFails(exc) ==
  /\ loc_pc = "initial"
  /\ ~(/\ exc.type = "HTTPError" /\ exc.status = 400
       /\ Len(FindAllDates(exc.text)) >= 2)
  /\ first_probe' = exc
  /\ loc_pc' = "search"
  /\ UNCHANGED <<calendar, search_from, loc_i, errors, probed, loc_result,
                 subscription_end>>

\* Line 173
Candidate == search_from - loc_i

\* Lines 175-178: the probe of the candidate returns quotes.
ProbeReturnsData ==
  /\ loc_pc = "search"
  /\ loc_i < WindowDays
  /\ ~Refused(calendar, Candidate)
  /\ Holds(calendar, Candidate)
  /\ probed' = Append(probed, <<Candidate, "data">>)
  /\ loc_result' = [kind |-> "return", date |-> Candidate, from |-> NoDay,
                    detail |-> <<>>]
  /\ loc_pc' = "returned"
  /\ UNCHANGED <<calendar, first_probe, search_from, loc_i, errors,
                 subscription_end>>

\* Lines 175-179, 183 with the next candidate skipped.
ProbeReturnsEmpty_SkipsDay ==
  /\ loc_pc = "search"
  /\ loc_i < WindowDays
  /\ ~Refused(calendar, Candidate)
  /\ ~Holds(calendar, Candidate)
  /\ probed' = Append(probed, <<Candidate, "empty">>)
  /\ loc_i' = IF loc_i + 2 > WindowDays THEN WindowDays ELSE loc_i + 2
  /\ UNCHANGED <<loc_pc, calendar, first_probe, search_from, errors, loc_result,
                 subscription_end>>

\* Lines 175-179, 183: the probe returns no quotes (a closed day).
ProbeReturnsEmpty ==
  /\ loc_pc = "search"
  /\ loc_i < WindowDays
  /\ ~Refused(calendar, Candidate)
  /\ ~Holds(calendar, Candidate)
  /\ probed' = Append(probed, <<Candidate, "empty">>)
  /\ loc_i' = loc_i + 1
  /\ UNCHANGED <<loc_pc, calendar, first_probe, search_from, errors, loc_result,
                 subscription_end>>

\* Lines 180-183: the probe raises; the error is noted and the loop goes on.
ProbeFails(exc) ==
  /\ loc_pc = "search"
  /\ loc_i < WindowDays
  /\ (exc.type = "HTTPError") = Refused(calendar, Candidate)
  /\ errors' = Append(errors, <<Candidate, exc>>)
  /\ probed' = Append(probed, <<Candidate, "failed">>)
  /\ loc_i' = loc_i + 1
  /\ UNCHANGED <<loc_pc, calendar, first_probe, search_from, loc_result,
                 subscription_end>>

\* Line 185 with the first five errors instead of the last five.
LastFive_FirstFive(errs) ==
  SubSeq(errs, 1, IF Len(errs) < 5 THEN Len(errs) ELSE 5)

\* Line 185: errors[-5:]
LastFive(errs) ==
  SubSeq(errs, IF Len(errs) < 5 THEN 1 ELSE Len(errs) - 4, Len(errs))

\* Lines 185-189: the loop ended without a return.
SearchExhausted ==
  /\ loc_pc = "search"
  /\ loc_i = WindowDays
  /\ loc_result' = [kind |-> "raise", date |-> NoDay, from |-> search_from,
                    detail |-> LastFive(errors)]
  /\ loc_pc' = "raised"
  /\ UNCHANGED <<calendar, first_probe, search_from, loc_i, errors, probed,
                 subscription_end>>

NoLocResult == [kind |-> "none", date |-> NoDay, from |-> NoDay, detail |-> <<>>]

LocInit ==
  /\ loc_pc = "initial"
  /\ calendar \in Calendars
  /\ first_probe = NoProbe
  /\ search_from = Today
  /\ loc_i = 0
  /\ errors = <<>>
  /\ probed = <<>>
  /\ loc_result = NoLocResult

LocIdle ==
  /\ loc_pc = "off"
  /\ calendar = "closed"
  /\ first_probe = NoProbe
  /\ search_from = Today
  /\ loc_i = 0
  /\ errors = <<>>
  /\ probed = <<>>
  /\ loc_result = NoLocResult

LocNext ==
  \/ InitialData
  \/ InitialEmpty
  \/ \E exc \in ProbeClientErrors : InitialBoundary(exc)
  \/ \E exc \in ProbeClientErrors \cup {ProbeExhausted} : InitialFails(exc)
  \/ ProbeReturnsData
  \/ ProbeReturnsEmpty
  \/ \E exc \in {HTTPError(400, "bad request"), ProbeExhausted} : ProbeFails(exc)
  \/ SearchExhausted

----------------------------------------------------------------------------
(* JQuantsClient.collect_recent_statements *)

\* days_back: int = 120, sampled every 3 days (range(0, days_back, 3))
DaysBack == 120
SampleStep == 3

\* d.weekday(): day 0 (1 January 2024) is a Monday.
Weekday(day) == (day + 700) % 7

\* Lines 209-213: the weekdays among today, today - 3, ..., today - 117.
ScanDates(today) ==
  SelectSeq([k \in 1..((DaysBack + SampleStep - 1) \div SampleStep) |->
               today - SampleStep * (k - 1)],
            LAMBDA day : Weekday(day) < 5)

\* What get_statements_for_date returns for one date.
Filing(code, period, date) ==
  [Code |-> code, TypeOfCurrentPeriod |-> period, DisclosedDate |-> date]
DayData ==
  {<<>>,
   <<Filing(Code12340, "FY", "2024-05-10")>>,
   <<Filing(Code12340, "2Q", "2024-08-09"), Filing(Code12345, "FY", "2024-05-10")>>}

NoColResult == [kind |-> "none", df |-> <<>>]

\* Lines 205-213: the anchor is the subscription boundary when the session
\* holds one, else the current date.
BuildScanDates ==
  /\ col_pc = "start"
  /\ scan_dates' = ScanDates(IF subscription_end # NoDate
                             THEN Strptime(subscription_end) ELSE Today)
  /\ col_pc' = "scan"
  /\ UNCHANGED <<col_idx, all_statements, n_received, n_failed, requested,
                 discarded, col_result>>

\* Lines 219-222: the date's statements are fetched and appended.
DateReturns(day_data) ==
  /\ col_pc = "scan"
  /\ col_idx < Len(scan_dates)
  /\ Len(all_statements) + Len(day_data) <= MaxStmts
  /\ all_statements' = all_statements \o day_data
  /\ n_received' = n_received + Len(day_data)
  /\ col_idx' = col_idx + 1
  /\ requested' = Append(requested, scan_dates[col_idx + 1])
  /\ UNCHANGED <<col_pc, scan_dates, n_failed, discarded, col_result>>

\* Lines 223-224 with the exception let through.
DateFails_Aborts(partial) ==
  /\ col_pc = "scan"
  /\ col_idx < Len(scan_dates)
  /\ n_failed' = n_failed + 1
  /\ requested' = Append(requested, scan_dates[col_idx + 1])
  /\ discarded' = partial
  /\ col_result' = [kind |-> "raise", df |-> <<>>]
  /\ col_pc' = "raised"
  /\ UNCHANGED <<scan_dates, col_idx, all_statements, n_received>>

\* Lines 223-224 with the date after the failed one left out.
DateFails_SkipsNext(partial) ==
  /\ col_pc = "scan"
  /\ col_idx < Len(scan_dates)
  /\ n_failed' = n_failed + 1
  /\ requested' = Append(requested, scan_dates[col_idx + 1])
  /\ discarded' = partial
  /\ col_idx' = IF col_idx + 2 > Len(scan_dates) THEN Len(scan_dates)
                ELSE col_idx + 2
  /\ UNCHANGED <<col_pc, scan_dates, all_statements, n_received, col_result>>

\* Lines 220, 223-224: the fetch of the date raised, at its first page or after
\* pages holding `partial`; nothing is appended and the loop goes on.
DateFails(partial) ==
  /\ col_pc = "scan"
  /\ col_idx < Len(scan_dates)
  /\ n_failed' = n_failed + 1
  /\ requested' = Append(requested, scan_dates[col_idx + 1])
  /\ discarded' = partial
  /\ col_idx' = col_idx + 1
  /\ UNCHANGED <<col_pc, scan_dates, all_statements, n_received, col_result>>

\* Lines 226-227: nothing was collected.
CollectRaises ==
  /\ col_pc = "scan"
  /\ col_idx = Len(scan_dates)
  /\ all_statements = <<>>
  /\ col_result' = [kind |-> "raise", df |-> <<>>]
  /\ col_pc' = "raised"
  /\ UNCHANGED <<scan_dates, col_idx, all_statements, n_received, n_failed,
                 requested, discarded>>

\* Lines 229-232: the collected statements are reduced and returned.
CollectReturns ==
  /\ col_pc = "scan"
  /\ col_idx = Len(scan_dates)
  /\ all_statements # <<>>
  /\ col_result' = [kind |-> "return", df |-> KeepLatestStatements(all_statements)]
  /\ col_pc' = "returned"
  /\ UNCHANGED <<scan_dates, col_idx, all_statements, n_received, n_failed,
                 requested, discarded>>

\* Lines 219-221 over the call in progress: get_statements_for_date returned
\* what _get_paginated returned, and the items are appended.
DayDataReturned ==
  /\ col_pc = "scan"
  /\ col_idx = 0
  /\ ppc = "done"
  /\ all_statements' = all_statements \o presult.items
  /\ n_received' = n_received + Len(presult.items)
  /\ col_idx' = 1
  /\ requested' = Append(requested, scan_dates[1])
  /\ UNCHANGED <<col_pc, scan_dates, n_failed, discarded, col_result>>
  /\ UNCHANGED fetchVars

\* Lines 219, 223-224 over the call in progress: _get_paginated raised, the
\* handler logs the error; the pages the call had received are gone with it.
DayDataRaised ==
  /\ col_pc = "scan"
  /\ col_idx = 0
  /\ ppc = "raised"
  /\ n_failed' = n_failed + 1
  /\ discarded' = results
  /\ col_idx' = 1
  /\ requested' = Append(requested, scan_dates[1])
  /\ UNCHANGED <<col_pc, scan_dates, all_statements, n_received, col_result>>
  /\ UNCHANGED fetchVars

ColInit ==
  /\ col_pc = "start"
  /\ scan_dates = <<>>
  /\ col_idx = 0
  /\ all_statements = <<>>
  /\ n_received = 0
  /\ n_failed = 0
  /\ requested = <<>>
  /\ discarded = <<>>
  /\ col_result = NoColResult

ColIdle ==
  /\ col_pc = "off"
  /\ scan_dates = <<>>
  /\ col_idx = 0
  /\ all_statements = <<>>
  /\ n_received = 0
  /\ n_failed = 0
  /\ requested = <<>>
  /\ discarded = <<>>
  /\ col_result = NoColResult

ColNext ==
  \/ BuildScanDates
  \/ \E day_data \in DayData : DateReturns(day_data)
  \/ \E partial \in DayData : DateFails(partial)
  \/ CollectRaises
  \/ CollectReturns

----------------------------------------------------------------------------
(* JQuantsClient.__init__ and _authenticate (lines 32-62), and the session    *)
(* main builds: the client, then JQuantsScreener.run with that client        *)

\* What requests.post gives: a response (status, whether the body is JSON,
\* and the two keys the body may hold) or a transport exception.
AuthResponse(status, json, refreshToken, idToken) ==
  [kind |-> "response", status |-> status, json |-> json,
   refreshToken |-> refreshToken, idToken |-> idToken]
AuthTransportError(type) ==
  [kind |-> type, status |-> 0, json |-> FALSE,
   refreshToken |-> Absent, idToken |-> Absent]
AuthResponses ==
  {AuthTransportError(type) : type \in {"ConnectionError", "Timeout"}}
    \cup {AuthResponse(status, TRUE, refreshToken, idToken) :
            status \in {200, 401, 403, 500},
            refreshToken \in {Absent, "rt-1"},
            idToken \in {Absent, "id-1", "id-2"}}
    \cup {AuthResponse(status, FALSE, Absent, Absent) :
            status \in {200, 401, 403, 500}}

\* resp.raise_for_status() then resp.json()[key]: the value, or the exception.
JsonKey(r, key) ==
  IF r.kind # "response" THEN [type |-> r.kind, value |-> ""]
  ELSE IF r.status >= 400 THEN [type |-> "HTTPError", value |-> ""]
  ELSE IF ~r.json THEN [type |-> "JSONDecodeError", value |-> ""]
  ELSE IF r[key] = Absent THEN [type |-> "KeyError", value |-> ""]
  ELSE [type |-> "ok", value |-> r[key]]

AuthRequest(url, refreshtoken, response) ==
  [url |-> url, refreshtoken |-> refreshtoken, response |-> response]

\* Lines 46-52 with the first step asked again after an error.
PostAuthUser_Retries(r) ==
  /\ auth_pc = "auth_user"
  /\ Len(auth_requests) < 3
  /\ auth_requests' = Append(auth_requests, AuthRequest("token/auth_user", "", r))
  /\ LET v == JsonKey(r, "refreshToken")
     IN IF v.type = "ok"
        THEN /\ refresh_token' = v.value
             /\ auth_pc' = "auth_refresh"
        ELSE UNCHANGED <<refresh_token, auth_pc>>
  /\ UNCHANGED <<id_token, auth_error, bearers, runVars, scan_dates>>

\* Lines 46-52: step 1, the refresh token.
PostAuthUser(r) ==
  /\ auth_pc = "auth_user"
  /\ auth_requests' = Append(auth_requests, AuthRequest("token/auth_user", "", r))
  /\ LET v == JsonKey(r, "refreshToken")
     IN IF v.type = "ok"
        THEN /\ refresh_token' = v.value
             /\ auth_pc' = "auth_refresh"
             /\ UNCHANGED auth_error
        ELSE /\ auth_error' = v.type
             /\ auth_pc' = "raised"
             /\ UNCHANGED refresh_token
  /\ UNCHANGED <<id_token, bearers, runVars, scan_dates>>

\* Lines 55-61: step 2, the ID token.
PostAuthRefresh(r) ==
  /\ auth_pc = "auth_refresh"
  /\ auth_requests' = Append(auth_requests,
                             AuthRequest("token/auth_refresh", refresh_token, r))
  /\ LET v == JsonKey(r, "idToken")
     IN IF v.type = "ok"
        THEN /\ id_token' = v.value
             /\ auth_pc' = "constructed"
             /\ UNCHANGED auth_error
        ELSE /\ auth_error' = v.type
             /\ auth_pc' = "raised"
             /\ UNCHANGED id_token
  /\ UNCHANGED <<refresh_token, bearers, runVars, scan_dates>>

\* Line 66: headers = {"Authorization": f"Bearer {self.id_token}"}
SendsBearer == bearers' = Append(bearers, id_token)

\* Lines 205-213: the scan anchor, the boundary if set, otherwise now.
ScanAnchor ==
  IF subscription_end # NoDate THEN Strptime(subscription_end) ELSE Today

\* The steps of run that call the service through the client, the statement
\* collection apart (lines 290-295 and 438).
SessionFetch ==
  /\ auth_pc = "constructed"
  /\ run_pc # "statements"
  /\ \/ \E table \in ListedTables : GetListedInfo(table)
     \/ \E boundary \in {NoDate, "2024-03-01"}, date \in {"20240301", "20240410"} :
          GetLatestTradingDate(boundary, date)
     \/ \E table \in PriceTables : GetDailyQuotes(table)
     \/ StepRaises
     \/ \E history \in Histories : CheckDividend(history)
     \/ CheckDividendFails
  /\ SendsBearer
  /\ UNCHANGED <<auth_pc, refresh_token, id_token, auth_requests, auth_error,
                 scan_dates>>

\* Line 298 with the scan anchored at the current date whatever the session holds.
SessionCollect_AnchorsNow ==
  /\ auth_pc = "constructed"
  /\ run_pc = "statements"
  /\ \/ \E table \in StatementTables : CollectRecentStatements(table)
     \/ StepRaises
  /\ scan_dates' = ScanDates(Today)
  /\ SendsBearer
  /\ UNCHANGED <<auth_pc, refresh_token, id_token, auth_requests, auth_error>>

\* Line 298: collect_recent_statements reads the boundary (lines 205-213),
\* fetches the sampled dates, and returns the reduced frame or raises.
SessionCollect ==
  /\ auth_pc = "constructed"
  /\ run_pc = "statements"
  /\ \/ \E table \in StatementTables : CollectRecentStatements(table)
     \/ StepRaises
  /\ scan_dates' = ScanDates(ScanAnchor)
  /\ SendsBearer
  /\ UNCHANGED <<auth_pc, refresh_token, id_token, auth_requests, auth_error>>

\* Lines 301-313: the steps of run that call nothing.
SessionCompute ==
  /\ auth_pc = "constructed"
  /\ Screen \/ Return
  /\ UNCHANGED <<authVars, scan_dates>>

\* No client is being constructed.
AuthIdle ==
  /\ auth_pc = "off"
  /\ refresh_token = ""
  /\ id_token = ""
  /\ auth_requests = <<>>
  /\ auth_error = ""
  /\ bearers = <<>>

\* Lines 32-37: the fields as __init__ sets them before it authenticates.
AuthInit ==
  /\ auth_pc = "auth_user"
  /\ refresh_token = ""
  /\ id_token = ""
  /\ auth_requests = <<>>
  /\ auth_error = ""
  /\ bearers = <<>>

SessionNext ==
  \/ \E r \in AuthResponses : PostAuthUser(r)
  \/ \E r \in AuthResponses : PostAuthRefresh(r)
  \/ SessionFetch
  \/ SessionCollect
  \/ SessionCompute

----------------------------------------------------------------------------
(* The specifications *)

Init ==
  /\ FetchInit /\ RedIdle /\ DivIdle /\ RunIdle /\ LocIdle /\ ColIdle
  /\ AuthIdle

Next == FetchNext /\ UNCHANGED <<redVars, divVars, runVars, locVars,
    colVars, authVars>>

Spec == Init /\ [][Next]_vars

\* requests.get has timeout=60, time.sleep returns, nothing else blocks: a call
\* in progress always takes its next step.
FairSpec == Spec /\ WF_vars(Next)

\* _keep_latest_statements applied to every table of at most MaxStmts rows.
ReduceInit ==
  /\ RedInit /\ FetchInit /\ DivIdle /\ RunIdle /\ LocIdle /\ ColIdle
  /\ AuthIdle

ReduceNext == Reduce /\ UNCHANGED <<fetchVars, divVars, runVars, locVars,
    colVars, authVars>>

SpecReduce == ReduceInit /\ [][ReduceNext]_vars

\* The same function over accumulated lists that hold the period types the
\* service sends for the first and the third quarter, which _PERIOD_PRIORITY
\* does not know: both get the default priority.
TiedRows ==
  [Code : {Code1234, Code12340}, TypeOfCurrentPeriod : {"FY", "1Q", "3Q"},
   DisclosedDate : RawDates]

ReduceTiedInit ==
  /\ red_pc = "input"
  /\ stmts \in UNION {[1..n -> TiedRows] : n \in 0..MaxStmts}
  /\ reduced = <<>>
  /\ FetchInit /\ DivIdle /\ RunIdle /\ LocIdle /\ ColIdle
  /\ AuthIdle

SpecReduceTied == ReduceTiedInit /\ [][ReduceNext]_vars

\* _has_no_dividend_cut applied to every history of at most MaxHistory rows.
DividendInit ==
  /\ DivInit /\ FetchInit /\ RedIdle /\ RunIdle /\ LocIdle /\ ColIdle
  /\ AuthIdle

DividendNext == Evaluate /\ UNCHANGED <<fetchVars, redVars, runVars, locVars,
    colVars, authVars>>

SpecDividend == DividendInit /\ [][DividendNext]_vars

\* JQuantsScreener.run, every call into the client answered by the service.
ScreenerInit ==
  /\ RunInit /\ FetchInit /\ RedIdle /\ DivIdle /\ LocIdle /\ ColIdle
  /\ AuthIdle

ScreenerNext == RunNext /\ UNCHANGED <<fetchVars, redVars, divVars, locVars,
    colVars, authVars>>

SpecRun == ScreenerInit /\ [][ScreenerNext]_vars

\* Lines 301-302 of run applied to every choice of the three frames.
ScreenInit ==
  /\ TablesInit /\ FetchInit /\ RedIdle /\ DivIdle /\ LocIdle /\ ColIdle
  /\ AuthIdle

ScreenNext == Screen /\ UNCHANGED <<fetchVars, redVars, divVars, locVars,
    colVars, authVars>>

SpecScreen == ScreenInit /\ [][ScreenNext]_vars

\* get_latest_trading_date: every answer of the service to every probe.
LocateInit ==
  /\ LocInit /\ FetchInit /\ RedIdle /\ DivIdle /\ RunIdle /\ ColIdle
  /\ AuthIdle

LocateNext == LocNext /\ UNCHANGED <<fetchVars, redVars, divVars, runRest,
    colVars, authVars>>

SpecLocate == LocateInit /\ [][LocateNext]_vars

\* collect_recent_statements, with or without a subscription boundary on the
\* session, every sampled date answered with statements or an error.
CollectInit ==
  /\ ColInit /\ FetchInit /\ RedIdle /\ DivIdle /\ LocIdle /\ RunRestIdle
  /\ AuthIdle
  /\ subscription_end \in {NoDate, "2024-03-01"}

CollectNext == ColNext /\ UNCHANGED <<fetchVars, redVars, divVars, runVars, locVars,
    authVars>>

SpecCollect == CollectInit /\ [][CollectNext]_vars

\* One sampled date of collect_recent_statements with its paginated call
\* (get_statements_for_date, line 130) and the requests of that call.
FetchDateInit ==
  /\ FetchInit /\ RedIdle /\ DivIdle /\ RunIdle /\ LocIdle /\ AuthIdle
  /\ col_pc = "scan"
  /\ scan_dates = ScanDates(Today)
  /\ col_idx = 0
  /\ all_statements = <<>>
  /\ n_received = 0
  /\ n_failed = 0
  /\ requested = <<>>
  /\ discarded = <<>>
  /\ col_result = NoColResult

FetchDateNext ==
  \/ FetchNext /\ UNCHANGED <<redVars, divVars, runVars, locVars, colVars, authVars>>
  \/ /\ DayDataReturned \/ DayDataRaised
     /\ UNCHANGED <<redVars, divVars, runVars, locVars, authVars>>

SpecFetchDate == FetchDateInit /\ [][FetchDateNext]_vars

\* The session of main (lines 102-107): a client is constructed, which
\* authenticates, and run is called with it.
SessionInit ==
  /\ AuthInit /\ RunInit /\ FetchInit /\ RedIdle /\ DivIdle /\ LocIdle /\ ColIdle

SessionStep ==
  SessionNext /\ UNCHANGED <<fetchVars, redVars, divVars, locVars, colRest>>

SpecSession == SessionInit /\ [][SessionStep]_vars

----------------------------------------------------------------------------
(* Claims about _get and _get_paginated (checked under Spec / FairSpec) *)

IsClientError(r) == r.status >= 400 /\ r.status < 500 /\ r.status # 429

\* C1: once an attempt of a get call is answered 4xx other than 429, the call
\* issues no further request and raises the HTTPError of that response (its
\* status code and body) to the caller; when that was the first answer, exactly
\* one request was made.
C1_ClientErrorNotRetried ==
  /\ [](IsClientError(resp) =>
          /\ pc = "raised"
          /\ outcome.kind = "raise"
          /\ outcome.exc.type = "HTTPError"
          /\ outcome.exc.status = resp.status
          /\ outcome.exc.text = resp.text
          /\ (attempt = 0 => nreq = 1)
          /\ (ppc # "loop" => ppc = "raised" /\ presult.exc = outcome.exc))
  /\ [][IsClientError(resp) => nreq' = nreq]_vars

\* A 404 answered to the third attempt (after two retried failures) has ended
\* the call and reached the caller of _get_paginated.
C1_Witness ==
  /\ ppc = "raised"
  /\ resp.status = 404
  /\ nreq = 3
  /\ presult.exc.status = 404

\* C2: whatever the answers, one get call issues at most 4 requests (429, 5xx
\* and transport failures share the one loop counter), and a call in progress
\* always ends: it returns a body or raises.
C2_AtMostFourRequests ==
  /\ [](nreq <= 4)
  /\ [](pc \in {"attempt", "sleep"} => <>(pc \in {"returned", "raised"}))

\* A call that used all four requests on a mix of failures and then got a body.
C2_Witness ==
  /\ pc = "returned"
  /\ nreq = 4
  /\ n429 = 1
  /\ last_exc.type = "Timeout"

\* C3: a 429 answered to attempt n (from 1) is followed by a sleep of exactly
\* 60 * n seconds, and a call that returns, returns the body of the 200 it got
\* last, within 4 requests.
C3_RateLimitBackoff ==
  /\ (pc = "sleep" /\ resp.status = 429) => wait = 60 * nreq
  /\ pc = "returned" =>
       /\ resp.status = 200
       /\ outcome.kind = "json"
       /\ outcome.body = resp.body
       /\ nreq <= 4

\* Two 429s (waits of 60 and 120 seconds), then a 200 whose body is returned.
C3_Witness ==
  /\ pc = "returned"
  /\ n429 = 2
  /\ nreq = 3
  /\ wait = 120
  /\ outcome.body.items = <<"b", "c">>

\* C4 as stated: a 429 answer never makes get raise; a call answered only with
\* 429s does not end in an error.
C4_RateLimitNeverRaises ==
  /\ resp.status = 429 => pc # "raised"
  /\ (nreq > 0 /\ n429 = nreq) => pc # "raised"

\* C4 as amended: a 429 answer does not raise at its attempt: it is followed by
\* a sleep of 60 * n seconds and, when n < 4, by attempt n + 1; a call raises
\* after a 429 only when that was its 4th request, and then with the
\* RuntimeError of line 97, which wraps None when all four answers were 429.
C4_RateLimitRaisesOnlyWhenExhausted ==
  /\ resp.status = 429 =>
       /\ pc \in {"sleep", "attempt", "raised"}
       /\ wait = 60 * nreq
       /\ pc = "attempt" => attempt = nreq /\ nreq < 4
       /\ pc = "raised" => nreq = 4 /\ outcome.exc.type = "RuntimeError"
  /\ (pc = "raised" /\ n429 = nreq) =>
       /\ nreq = 4
       /\ outcome.exc.type = "RuntimeError"
       /\ outcome.exc.cause = <<"None", 0>>

\* Four 429 answers: the call has raised.
C4_Witness ==
  /\ pc = "raised"
  /\ n429 = 4
  /\ wait = 240

\* The concatenation of the pages' item arrays (a page without the key gives none).
RECURSIVE C5_Flatten(_)
C5_Flatten(pages) ==
  IF pages = <<>> THEN <<>>
  ELSE (IF Head(pages).items = <<Absent>> THEN <<>> ELSE Head(pages).items)
         \o C5_Flatten(Tail(pages))

\* C5: a paginated call that received N pages, the first N-1 with a non-empty
\* cursor and the last without, made exactly N get calls: the first with the
\* caller's params, each later one with the caller's params plus the cursor of
\* the page before it; it returns the N item arrays concatenated in order.
C5_PaginationConcatenates ==
  ppc = "done" =>
    LET N == Len(got) IN
    /\ N >= 1
    /\ Len(sent) = N
    /\ sent[1] = orig
    /\ \A i \in 2..N :
         /\ DOMAIN sent[i] = DOMAIN orig \cup {"pagination_key"}
         /\ sent[i].pagination_key = got[i-1].pagination_key
         /\ \A x \in DOMAIN orig : sent[i][x] = orig[x]
    /\ \A i \in 1..(N-1) : got[i].pagination_key \notin {Absent, ""}
    /\ got[N].pagination_key \in {Absent, ""}
    /\ presult.kind = "list"
    /\ presult.items = C5_Flatten(got)

\* Three pages with cursors k1, k2 and none, for a call with a date parameter.
C5_Witness ==
  /\ ppc = "done"
  /\ Len(got) = 3
  /\ got[1].pagination_key = "k1"
  /\ got[2].pagination_key = "k2"
  /\ got[3].pagination_key = Absent
  /\ presult.items = <<"a", "b", "c", "a">>
  /\ sent[3] = [date |-> "20240510", pagination_key |-> "k2"]

\* C18: a 5xx answer to attempt n (from 1) is followed by a sleep of 10 * n
\* seconds, a timeout or connection failure by a sleep of 10 seconds; after
\* the sleep the call makes its next attempt when n < 4 and makes none when
\* n = 4: both kinds of failure use up the same 4 attempts.
C18_ServerAndTransportBackoff ==
  /\ [](/\ nreq <= 4
        /\ pc = "sleep" => nreq = attempt + 1
        /\ (pc = "sleep" /\ resp.status >= 500 /\ resp.status <= 599)
             => wait = 10 * nreq
        /\ (pc = "sleep" /\ resp.status = 0) =>
             resp.text \in {"Timeout", "ConnectionError"} /\ wait = 10)
  /\ [][(pc = "sleep" /\ resp.status \notin {200, 429}) =>
          /\ nreq' = nreq
          /\ IF nreq < 4 THEN pc' = "attempt" /\ attempt' = attempt + 1
                         ELSE pc' = "raised"]_vars

\* The third attempt of a call was answered 503: the sleep that follows is
\* 30 seconds.
C18_Witness ==
  /\ pc = "sleep"
  /\ nreq = 3
  /\ n429 = 0
  /\ resp.status = 503
  /\ wait = 30

\* C19: when all 4 attempts of a call fail, the call raises the RuntimeError
\* of exhausted retries, and that error carries the failure of the 4th
\* attempt, whichever of 429, 5xx and transport failure each attempt met.
C19_ExhaustedCarriesLastFailure ==
  (pc = "raised" /\ nreq = 4 /\ resp.status \notin {200, 400, 404}) =>
    /\ outcome.kind = "raise"
    /\ outcome.exc.type = "RuntimeError"
    /\ outcome.exc.cause[2] = resp.status
    /\ resp.status = 0 => outcome.exc.cause[1] = resp.text
    /\ resp.status # 0 => outcome.exc.cause[1] = "HTTPError"

\* Three 503 answers, then a 429: the RuntimeError raised carries the 503 of
\* the third attempt.
C19_StaleFailureCarried ==
  /\ pc = "raised"
  /\ nreq = 4
  /\ n429 = 1
  /\ resp.status = 429
  /\ outcome.exc.cause = <<"HTTPError", 503>>

----------------------------------------------------------------------------
(* Claims about _keep_latest_statements (checked under SpecReduce) *)

\* The canonical identifier: the leading 4 characters.
C6_Canonical(code) == SubSeq(code, 1, IF Len(code) < 4 THEN Len(code) ELSE 4)

\* C6: after statement reduction there is exactly one record per canonical
\* (leading-4-character) identifier of the input, also when raw identifiers of
\* different widths or trailing characters share a canonical identifier.
C6_OneRecordPerCanonicalId ==
  red_pc = "done" =>
    \A i \in DOMAIN stmts :
      Cardinality({j \in DOMAIN reduced :
                     C6_Canonical(reduced[j].Code) = C6_Canonical(stmts[i].Code)}) = 1

\* The period-priority numbers as the claim lists them.
C7_Priority(x) ==
  IF x = "FY" THEN 0 ELSE IF x = "2Q" THEN 1 ELSE IF x = "Q3" THEN 2
  ELSE IF x = "Q1" THEN 3 ELSE 99

\* The day number of a disclosure date yyyy-mm-dd of the model's inputs.
C7_Day(str) == IF str = "2024-05-10" THEN 20240510 ELSE 20240809

\* C7: for each identifier of the input exactly one record is kept; it is one
\* of that identifier's records, none of them has a lower period-priority
\* number (FY 0, 2Q 1, Q3 2, Q1 3, else 99), and none of that priority has a
\* later disclosure date.
C7_KeepsBestPeriodThenLatest ==
  red_pc = "done" =>
    \A i \in DOMAIN stmts :
      LET mine == {k \in DOMAIN stmts : stmts[k].Code = stmts[i].Code}
          kept == {j \in DOMAIN reduced : reduced[j].Code = stmts[i].Code}
      IN /\ Cardinality(kept) = 1
         /\ \A j \in kept :
              /\ \E k \in mine :
                   /\ stmts[k].TypeOfCurrentPeriod = reduced[j].TypeOfCurrentPeriod
                   /\ C7_Day(stmts[k].DisclosedDate) = reduced[j].DisclosedDate
              /\ \A k \in mine :
                   /\ C7_Priority(reduced[j].TypeOfCurrentPeriod)
                        <= C7_Priority(stmts[k].TypeOfCurrentPeriod)
                   /\ C7_Priority(stmts[k].TypeOfCurrentPeriod)
                        = C7_Priority(reduced[j].TypeOfCurrentPeriod)
                      => C7_Day(stmts[k].DisclosedDate) <= reduced[j].DisclosedDate

\* Period types Q1, FY, Q1 of one identifier, the FY record disclosed first:
\* the FY record is the one kept.
C7_Witness ==
  /\ red_pc = "done"
  /\ Len(stmts) = 3
  /\ \A i \in 1..3 : stmts[i].Code = Code12340
  /\ stmts[1].TypeOfCurrentPeriod = "Q1"
  /\ stmts[2].TypeOfCurrentPeriod = "FY"
  /\ stmts[3].TypeOfCurrentPeriod = "Q1"
  /\ stmts[2].DisclosedDate = "2024-05-10"
  /\ stmts[1].DisclosedDate = "2024-08-09"
  /\ Len(reduced) = 1
  /\ reduced[1].TypeOfCurrentPeriod = "FY"

----------------------------------------------------------------------------
(* Claims about _has_no_dividend_cut (checked under SpecDividend) *)

\* The history fetched is exactly the annual disclosures whose dividends, listed
\* from the newest disclosure to the oldest, are vals.
C8_HistoryIs(vals) ==
  /\ Len(stmt_df) = Len(vals)
  /\ \A i \in DOMAIN stmt_df : stmt_df[i].TypeOfCurrentPeriod = "FY"
  /\ \E f \in [DOMAIN vals -> DOMAIN stmt_df] :
       /\ \A i, j \in DOMAIN vals :
            i < j => /\ f[i] # f[j]
                     /\ \/ /\ stmt_df[f[i]].DisclosedDate = "2024-05-10"
                           /\ stmt_df[f[j]].DisclosedDate # "2024-05-10"
                        \/ /\ stmt_df[f[i]].DisclosedDate = "2023-05-10"
                           /\ stmt_df[f[j]].DisclosedDate = "2022-05-10"
       /\ \A i \in DOMAIN vals :
            stmt_df[f[i]].ResultDividendPerShareAnnual = vals[i]

\* C8 as stated: with the 3-year look-back the evaluator passes the history
\* [10, 10, 12] (newest to oldest), fails [10, 12], passes a single value and
\* passes an empty history.
C8_TrendExamples ==
  div_pc = "done" =>
    /\ (div_cut_years = 3 /\ C8_HistoryIs(<<"10", "10", "12">>)) => no_cut
    /\ C8_HistoryIs(<<"10", "12">>) => ~no_cut
    /\ (C8_HistoryIs(<<"10">>) \/ C8_HistoryIs(<<"12">>)) => no_cut
    /\ C8_HistoryIs(<<>>) => no_cut

\* C8 as amended: with the 3-year look-back the evaluator fails the history
\* [10, 10, 12] (newest to oldest: 10 < 12 is a cut, as in [10, 12]) and passes
\* the same dividends in rising order [12, 10, 10]; it fails [10, 12], passes a
\* single value and passes an empty history.
C8_TrendExamplesAmended ==
  div_pc = "done" =>
    /\ (div_cut_years = 3 /\ C8_HistoryIs(<<"10", "10", "12">>)) => ~no_cut
    /\ (div_cut_years = 3 /\ C8_HistoryIs(<<"12", "10", "10">>)) => no_cut
    /\ C8_HistoryIs(<<"10", "12">>) => ~no_cut
    /\ (C8_HistoryIs(<<"10">>) \/ C8_HistoryIs(<<"12">>)) => no_cut
    /\ C8_HistoryIs(<<>>) => no_cut

\* The history [10, 10, 12] was evaluated with the 3-year look-back: a cut.
C8_Witness ==
  /\ div_pc = "done"
  /\ div_cut_years = 3
  /\ C8_HistoryIs(<<"10", "10", "12">>)
  /\ dps_values = <<10, 10, 12>>
  /\ ~no_cut

\* A disclosure as the claim reads it: the day of its date, its dividend (-1
\* when it reports none that is usable).
C9_Day(str) ==
  IF str = "2024-05-10" THEN 3 ELSE IF str = "2023-05-10" THEN 2 ELSE 1
C9_Dps(str) == IF str = "10" THEN 10 ELSE IF str = "12" THEN 12 ELSE -1
C9_Same(a, row) ==
  /\ (a.date = 20240510) = (C9_Day(row.DisclosedDate) = 3)
  /\ (a.date = 20230510) = (C9_Day(row.DisclosedDate) = 2)
  /\ (a.date = 20220510) = (C9_Day(row.DisclosedDate) = 1)
  /\ a.dps = C9_Dps(row.ResultDividendPerShareAnnual)

\* C9: the evaluator orders the annual disclosures by disclosure date
\* descending, takes the first N (N = look-back years), keeps their usable
\* dividends in that order, passes when fewer than 2 remain, and otherwise
\* fails exactly when some value is strictly less than the next (older) one.
C9_TrendRule ==
  div_pc = "done" =>
    LET fy == {i \in DOMAIN stmt_df : stmt_df[i].TypeOfCurrentPeriod = "FY"}
        reported == \E i \in DOMAIN stmt_df :
                      stmt_df[i].ResultDividendPerShareAnnual # Absent
        top == {k \in DOMAIN annual : k <= div_cut_years}
        usable == {k \in top : annual[k].dps # -1}
    IN IF fy = {} \/ ~reported THEN no_cut
       ELSE /\ Len(annual) = Cardinality(fy)
            /\ \A k \in 1..(Len(annual) - 1) : annual[k].date >= annual[k + 1].date
            /\ \A i \in fy :
                 Cardinality({k \in DOMAIN annual : C9_Same(annual[k], stmt_df[i])})
                   = Cardinality({j \in fy :
                        /\ stmt_df[j].DisclosedDate = stmt_df[i].DisclosedDate
                        /\ C9_Dps(stmt_df[j].ResultDividendPerShareAnnual)
                             = C9_Dps(stmt_df[i].ResultDividendPerShareAnnual)})
            /\ Len(dps_values) = Cardinality(usable)
            /\ \A k \in usable :
                 dps_values[Cardinality({m \in usable : m <= k})] = annual[k].dps
            /\ no_cut = (\/ Len(dps_values) < 2
                         \/ \A m \in 1..(Len(dps_values) - 1) :
                              dps_values[m] >= dps_values[m + 1])

\* With a 2-year look-back the history [10, 10, 12] passes: the two most recent
\* dividends are equal and the cut lies outside the window.
C9_Witness ==
  /\ div_pc = "done"
  /\ div_cut_years = 2
  /\ C8_HistoryIs(<<"10", "10", "12">>)
  /\ dps_values = <<10, 10>>
  /\ no_cut

----------------------------------------------------------------------------
(* Claims about JQuantsScreener.run *)

\* Two cells hold the same number.
C10_Is(cell, n, d) == cell.k = "num" /\ cell.n * d = n * cell.d

\* The row of the scenario: identifier "1234", valuation ratio 1.2, yield 3.0,
\* market capitalization 20,000,000,000 yen (20,000,000 thousand).
C10_Scenario(row) ==
  /\ row.code = <<"1", "2", "3", "4">>
  /\ C10_Is(row.pbr, 12, 10)
  /\ C10_Is(row.div_yield, 3, 1)
  /\ C10_Is(row.market_cap, 20000000, 1)

\* The annual disclosures of the history are those of 2024, 2023 and 2022 with
\* the dividends newest, middle and oldest.
C10_HistoryIs(history, newest, middle, oldest) ==
  {<<history[i].DisclosedDate, history[i].ResultDividendPerShareAnnual>> :
     i \in {j \in DOMAIN history : history[j].TypeOfCurrentPeriod = "FY"}}
    = {<<"2024-05-10", newest>>, <<"2023-05-10", middle>>,
       <<"2022-05-10", oldest>>}

C10_InResult(row) ==
  \E j \in DOMAIN run_result.candidates : run_result.candidates[j] = row

\* C10 as stated: the scenario row whose 3-year history is [50, 52, 55] listed
\* newest to oldest appears in the result returned by run.
C10_DecliningHistoryIncluded ==
  run_pc = "returned" =>
    \A i \in DOMAIN candidates :
      (C10_Scenario(candidates[i])
         /\ C10_HistoryIs(fetched[i], "50", "52", "55"))
        => C10_InResult(candidates[i])

\* C10: end to end, the row of identifier "1234" with valuation ratio 1.2,
\* yield 3.0 and market capitalization 20,000,000,000 passes the thresholds;
\* it appears in the result returned by run when its 3-year annual dividend
\* history is [55, 52, 50] listed newest to oldest, and it is dropped when the
\* history is [50, 52, 55] listed newest to oldest (the newest dividend is
\* below the one before it).
C10_EndToEnd ==
  run_pc = "returned" =>
    /\ \A i \in DOMAIN merged :
         C10_Scenario(merged[i])
           => \E j \in DOMAIN candidates : candidates[j] = merged[i]
    /\ \A i \in DOMAIN candidates :
         C10_Scenario(candidates[i]) =>
           /\ C10_HistoryIs(fetched[i], "55", "52", "50")
                => C10_InResult(candidates[i])
           /\ C10_HistoryIs(fetched[i], "50", "52", "55")
                => \/ ~C10_InResult(candidates[i])
                   \/ \E k \in DOMAIN candidates :
                        /\ k # i
                        /\ candidates[k] = candidates[i]
                        /\ ~C10_HistoryIs(fetched[k], "50", "52", "55")

\* run returned after the scenario row passed the thresholds and its history
\* [50, 52, 55] (newest to oldest) was fetched: the row is not in the result.
C10_Witness ==
  /\ run_pc = "returned"
  /\ run_result.kind = "return"
  /\ \E i \in DOMAIN candidates :
       /\ C10_Scenario(candidates[i])
       /\ C10_HistoryIs(fetched[i], "50", "52", "55")
       /\ ~C10_InResult(candidates[i])

\* run returned the scenario row, its history being [55, 52, 50].
C10_IncludedCase ==
  /\ run_pc = "returned"
  /\ \E i \in DOMAIN candidates :
       /\ C10_Scenario(candidates[i])
       /\ C10_HistoryIs(fetched[i], "55", "52", "50")
       /\ C10_InResult(candidates[i])

----------------------------------------------------------------------------
(* Claims about _merge_all and _apply_filters (checked under SpecScreen) *)

\* A cell is a number (or an infinity) not above / not below n/d.
C11_AtMost(cell, n, d) ==
  \/ cell.k = "-inf"
  \/ cell.k = "num" /\ cell.n * d <= n * cell.d
C11_AtLeast(cell, n, d) ==
  \/ cell.k = "inf"
  \/ cell.k = "num" /\ cell.n * d >= n * cell.d
C11_NonNull(cell) == cell.k \in {"num", "inf", "-inf"}
C11_Digit(ch) ==
  ch \in {"0", "1", "2", "3", "4", "5", "6", "7", "8", "9"}

\* The rows the claim keeps: maximum 1.5, minimum yield 2.5, minimum market
\* capitalization 10,000,000,000 (10,000,000 thousand).
C11_Keeps(row) ==
  /\ C11_NonNull(row.price) /\ C11_NonNull(row.pbr)
  /\ C11_NonNull(row.div_yield) /\ C11_NonNull(row.market_cap)
  /\ C11_AtMost(row.pbr, 3, 2)
  /\ C11_AtLeast(row.div_yield, 5, 2)
  /\ C11_AtLeast(row.market_cap, 10000000, 1)
  /\ Len(row.code) = 4
  /\ \A i \in 1..Len(row.code) : C11_Digit(row.code[i])

\* C11: the threshold filter returns exactly the reconciled rows, in their
\* order, whose price, valuation ratio, yield and market capitalization are
\* non-null, with ratio <= maximum, yield >= minimum and capitalization >=
\* minimum (bounds inclusive) and a canonical identifier of four digits; a
\* row with an undefined derived field is dropped, and a row with valuation
\* ratio 2.0 is dropped whatever its yield.
C11_ThresholdFilter ==
  run_pc = "dividends" =>
    LET kept == {i \in DOMAIN merged : C11_Keeps(merged[i])}
    IN /\ Len(candidates) = Cardinality(kept)
       /\ \A i \in kept :
            candidates[Cardinality({j \in kept : j <= i})] = merged[i]
       /\ \A i \in DOMAIN merged :
            (\/ merged[i].pbr.k = "nan" \/ merged[i].div_yield.k = "nan"
             \/ merged[i].market_cap.k = "nan"
             \/ C10_Is(merged[i].pbr, 2, 1))
              => \A j \in DOMAIN candidates : candidates[j] # merged[i]

\* The filter ran on a table holding 7203 at ratio 2.0 and a row exactly on
\* the three bounds (ratio 1.5, yield 2.5, capitalization 10,000,000,000):
\* only the latter is kept.
C11_Witness ==
  /\ run_pc = "dividends"
  /\ Len(merged) = 2
  /\ C10_Is(merged[1].pbr, 2, 1)
  /\ C10_Is(merged[2].pbr, 3, 2)
  /\ C10_Is(merged[2].div_yield, 5, 2)
  /\ C10_Is(merged[2].market_cap, 10000000, 1)
  /\ candidates = <<merged[2]>>

\* The leading 4 characters of an identifier (all of it when shorter).
C12_Leading(code) == [i \in 1..(IF Len(code) < 4 THEN Len(code) ELSE 4) |-> code[i]]

\* What _merge_all makes of a statement identifier: 5 characters lose the
\* trailing one, any other length is left as it is.
C12_FiveToFour(code) ==
  IF Len(code) = 5 THEN [i \in 1..4 |-> code[i]] ELSE code

\* The quote carries a price, the statement a number of shares.
C12_Priced(q) ==
  \/ q.AdjustmentClose.k = "num"
  \/ q.AdjustmentClose.k = "null" /\ q.Close.k = "num"
C12_WithShares(st) ==
  st.NumberOfIssuedAndOutstandingSharesAtTheEndOfFiscalYearIncludingTreasuryStock.k
    = "num"

C13_Null(cell) == cell.k = "nan"
C13_Positive(cell) == cell.k = "num" /\ cell.n > 0

\* C13: in the reconciled table the valuation ratio, the yield and the market
\* capitalization are null whenever one of their inputs is missing or the
\* price is not positive, and the valuation ratio is null as well when the
\* book value per share is zero or negative.
C13_DerivedFieldsNull ==
  run_pc = "dividends" =>
    \A i \in DOMAIN merged :
      LET row == merged[i]
      IN /\ (~C13_Positive(row.price) \/ ~C13_Positive(row.bps))
              => C13_Null(row.pbr)
         /\ (~C13_Positive(row.price) \/ C13_Null(row.dps))
              => C13_Null(row.div_yield)
         /\ (~C13_Positive(row.price) \/ C13_Null(row.shares_outstanding))
              => C13_Null(row.market_cap)

\* The row of "1234" at price 1000 with book value per share -500: its
\* valuation ratio is -2.0 and it passes the threshold filter.
C13_NegativeBookValueScreened ==
  /\ run_pc = "dividends"
  /\ \E i \in DOMAIN candidates :
       /\ candidates[i].code = <<"1", "2", "3", "4">>
       /\ C10_Is(candidates[i].price, 1000, 1)
       /\ C10_Is(candidates[i].bps, -500, 1)
       /\ C10_Is(candidates[i].pbr, -2, 1)

----------------------------------------------------------------------------
(* Claims about get_latest_trading_date (checked under SpecLocate) *)

\* The dates probed by the loop whose probe gave `gave`.
C14_Probed(day, gave) ==
  \E k \in DOMAIN probed : probed[k] = <<day, gave>>

\* C14: the locator scans from the search-start date backward one day at a
\* time over at most 14 dates and returns the first date whose probe returns
\* quotes: every date of the window later than the returned one was probed
\* before it and returned nothing or failed, and the returned date lies in
\* the window start-13 .. start.
C14_FirstDateWithData ==
  /\ Len(probed) <= 14
  /\ \A k \in DOMAIN probed : probed[k][1] = search_from - (k - 1)
  /\ loc_pc = "returned" =>
       /\ loc_result.date <= search_from
       /\ loc_result.date >= search_from - 13
       /\ \/ first_probe.type = "data" /\ loc_result.date = search_from
          \/ probed[Len(probed)] = <<loc_result.date, "data">>
       /\ \A day \in (loc_result.date + 1)..search_from :
            \E k \in 1..(Len(probed) - 1) :
              /\ probed[k][1] = day
              /\ probed[k][2] \in {"empty", "failed"}

\* A date three days or more before the start was returned, after probes that
\* returned nothing and probes that failed.
C14_Witness ==
  /\ loc_pc = "returned"
  /\ loc_result.date <= search_from - 3
  /\ \E k \in DOMAIN probed : probed[k][2] = "empty"
  /\ \E k \in DOMAIN probed : probed[k][2] = "failed"

\* The two bodies that hold the dates 2024-02-01 and 2024-03-01.
C15_Ascending ==
  "Your subscription covers the following dates: 2024-02-01 ~ 2024-03-01"
C15_Descending ==
  "Your subscription covers the following dates: 2024-03-01 ~ 2024-02-01"

C16_MostRecentDateWithData ==
  loc_pc = "returned" =>
    /\ Holds(calendar, loc_result.date)
    /\ loc_result.date <= search_from
    /\ \A day \in (loc_result.date + 1)..search_from : ~Holds(calendar, day)

\* C16: the date returned is the most recent date, not later than the search
\* start, whose probe returned price data: the service holds data for it, and
\* every later date down from the search start either holds no data or had
\* its probe fail; when no probe of the search failed, it is the most recent
\* date for which the service holds data.
C16_MostRecentDateProbedWithData ==
  loc_pc = "returned" =>
    /\ Holds(calendar, loc_result.date)
    /\ loc_result.date <= search_from
    /\ \A day \in (loc_result.date + 1)..search_from :
         ~Holds(calendar, day) \/ C14_Probed(day, "failed")
    /\ errors = <<>> =>
         \A day \in (loc_result.date + 1)..search_from : ~Holds(calendar, day)

\* A date was returned although the service holds data for a later date of
\* the window, whose probe failed.
C16_Witness ==
  /\ loc_pc = "returned"
  /\ \E day \in (loc_result.date + 1)..search_from :
       Holds(calendar, day) /\ C14_Probed(day, "failed")

\* C17: a failed probe never ends the search: the locator raises only after
\* the 14 dates of the window were all probed without quotes, whatever errors
\* (client errors included) the probes raised, and the error raised carries
\* the errors of the last five failed probes, in order (of all of them when
\* fewer than five failed).
C17_RaisesAfterWindowWithLastFive ==
  /\ \A k \in DOMAIN errors : C14_Probed(errors[k][1], "failed")
  /\ loc_pc = "raised" =>
       LET failed == {k \in DOMAIN probed : probed[k][2] = "failed"}
           n == Cardinality(failed)
           m == IF n < 5 THEN n ELSE 5
       IN /\ Len(probed) = 14
          /\ \A k \in DOMAIN probed :
               /\ probed[k][1] = search_from - (k - 1)
               /\ probed[k][2] \in {"empty", "failed"}
          /\ Len(errors) = n
          /\ Len(loc_result.detail) = m
          /\ \A j \in 1..m :
               /\ loc_result.detail[j] = errors[n - m + j]
               /\ \E k \in failed :
                    /\ probed[k][1] = loc_result.detail[j][1]
                    /\ Cardinality({q \in failed : q > k}) = m - j

\* The search was exhausted after more than five failed probes, client errors
\* and exhausted retries among them.
C17_Witness ==
  /\ loc_pc = "raised"
  /\ Len(errors) > 5
  /\ \E k \in DOMAIN errors : errors[k][2].type = "HTTPError"
  /\ \E k \in DOMAIN errors : errors[k][2].type = "RuntimeError"
  /\ loc_result.detail[1] = errors[Len(errors) - 4]

----------------------------------------------------------------------------
(* Claims about collect_recent_statements (checked under SpecCollect) *)

\* C20: the collector raises if and only if no statement was received over
\* all the sampled dates; with one statement or more it returns the reduced
\* set, however many of the sampled dates failed. Either way every sampled
\* date was tried first.
C20_RaisesIffNothingCollected ==
  /\ col_pc \in {"raised", "returned"} =>
       /\ col_idx = Len(scan_dates)
       /\ (col_pc = "raised") = (n_received = 0)
  /\ col_pc = "raised" => col_result.kind = "raise"
  /\ col_pc = "returned" =>
       /\ col_result.kind = "return"
       /\ Len(all_statements) = n_received
       /\ col_result.df = KeepLatestStatements(all_statements)
       /\ col_result.df # <<>>

\* Every sampled date but one failed and the collector returned the one
\* statement it received.
C20_Witness ==
  /\ col_pc = "returned"
  /\ n_failed = Len(scan_dates) - 1
  /\ n_failed > 20
  /\ n_received = 1
  /\ Len(col_result.df) = 1

\* C21: a fetch failure of one sampled date, whatever the error and whatever
\* page of the date it struck, does not leave the collector: the loop goes on
\* and every sampled date is fetched, each once, from the most recent to the
\* oldest.
C21_FailedDateAbsorbed ==
  /\ [](/\ Len(requested) = col_idx
        /\ \A k \in DOMAIN requested : requested[k] = scan_dates[k]
        /\ \A k \in 1..(Len(scan_dates) - 1) : scan_dates[k] > scan_dates[k + 1]
        /\ col_pc \in {"raised", "returned"} => Len(requested) = Len(scan_dates)
        /\ (col_pc = "raised" /\ n_failed > 0) => n_received = 0)
  /\ [][n_failed' > n_failed => col_pc' = "scan" /\ col_result' = col_result]_vars

\* The collector returned after dates failed, one of them after a page of
\* statements, and after the last of the dates was fetched.
C21_Witness ==
  /\ col_pc = "returned"
  /\ n_failed >= 2
  /\ discarded # <<>>
  /\ Len(requested) > 20
  /\ requested[Len(requested)] = scan_dates[Len(scan_dates)]

\* C22: in the dividend-trend step an error while fetching or evaluating
\* the history of one identifier keeps that identifier: its row is in the
\* result returned by run, and the rows after it are evaluated all the same.
C22_FetchErrorKeepsIdentifier ==
  /\ Len(fetched) = Len(check_results)
  /\ \A i \in DOMAIN fetched :
       fetched[i] = <<Disclosure("<error>", "", "")>> => check_results[i]
  /\ run_pc = "returned" =>
       /\ Len(fetched) = Len(candidates)
       /\ \A i \in DOMAIN fetched :
            fetched[i] = <<Disclosure("<error>", "", "")>>
              => C10_InResult(candidates[i])

\* Of two rows that passed the thresholds the first met a fetch error and is
\* in the result; the second was evaluated after it and dropped for a cut.
C22_Witness ==
  /\ run_pc = "returned"
  /\ Len(candidates) = 2
  /\ fetched[1] = <<Disclosure("<error>", "", "")>>
  /\ C10_HistoryIs(fetched[2], "50", "52", "55")
  /\ run_result.candidates = <<candidates[1]>>

\* C25: an error of the listing fetch, the trading-date search, the price
\* fetch or the statement collection leaves run at once: nothing of a later
\* step is fetched or computed after it, run returns no result, and run takes
\* no further step; a failed fetch of one identifier's dividend history does
\* not end run, which returns only when every step was done.
C25_FatalErrorsPropagate ==
  /\ [](run_pc = "raised" =>
          /\ run_result.kind = "raise"
          /\ run_result.holdings_df = <<>> /\ run_result.candidates = <<>>
          /\ merged = <<>> /\ candidates = <<>> /\ fetched = <<>>
          /\ statements = <<>>
          /\ run_result.at \in {"listed", "trading_date", "prices", "statements"}
          /\ run_result.at \in {"listed", "trading_date", "prices"}
               => prices = <<>>
          /\ run_result.at \in {"listed", "trading_date"} => latest_date = "<none>"
          /\ run_result.at = "listed" => listed = <<>>)
  /\ [](run_pc = "returned" =>
          /\ run_result.kind = "return"
          /\ listed # <<>> /\ latest_date # "<none>" /\ statements # <<>>
          /\ Len(fetched) = Len(candidates))
  /\ [][run_pc # "raised" /\ run_pc # "returned"]_vars
  /\ [][Len(fetched') > Len(fetched) => run_pc' = "dividends"]_vars

\* The price fetch raised: the listing and the trading date are there, no
\* statement was collected and run raised.
C25_Witness ==
  /\ run_pc = "raised"
  /\ run_result.at = "prices"
  /\ listed # <<>>
  /\ latest_date = "20240510"
  /\ statements = <<>>

\* The history of candidate i passes the trend evaluation, or could not be
\* fetched.
C28_Passes(i) ==
  \/ fetched[i] = <<Disclosure("<error>", "", "")>>
  \/ HasNoDividendCut(fetched[i], 3)

\* C28: the result returned by run is exactly the rows that survived the
\* threshold filter and whose trend evaluation passes, in the order of the
\* filter; one statement history is fetched for each survivor, in that order,
\* and none for a row that did not survive.
C28_ResultIsSurvivorsThatPass ==
  /\ Len(fetched) <= Len(candidates)
  /\ run_pc \in {"dividends", "returned"} =>
       LET kept == {i \in DOMAIN merged : C11_Keeps(merged[i])}
       IN /\ Len(candidates) = Cardinality(kept)
          /\ \A i \in kept :
               candidates[Cardinality({j \in kept : j <= i})] = merged[i]
  /\ run_pc = "returned" =>
       LET passed == {i \in DOMAIN candidates : C28_Passes(i)}
       IN /\ Len(fetched) = Len(candidates)
          /\ Len(run_result.candidates) = Cardinality(passed)
          /\ \A i \in passed :
               run_result.candidates[Cardinality({j \in passed : j <= i})]
                 = candidates[i]

\* Two rows survived the filter; the first was dropped for a cut, the second
\* passed: the result is the second alone, and the table held a row that did
\* not survive (no history was fetched for it).
C28_Witness ==
  /\ run_pc = "returned"
  /\ Len(candidates) = 2
  /\ Len(merged) > 2
  /\ Len(fetched) = 2
  /\ C10_HistoryIs(fetched[1], "50", "52", "55")
  /\ C10_HistoryIs(fetched[2], "55", "52", "50")
  /\ run_result.candidates = <<candidates[2]>>

\* The merged row j stands for the listing record l.
C23_RowOf(j, l) ==
  /\ merged[j].code = C12_Leading(l.Code)
  /\ merged[j].name = l.CompanyName

C23_NoPrice(l) ==
  \A j \in DOMAIN prices : C12_Leading(prices[j].Code) # C12_Leading(l.Code)

C23_NoStatement(l) ==
  \A j \in DOMAIN statements :
    C12_FiveToFour(statements[j].Code) # C12_Leading(l.Code)

\* C23: the reconciled table has a row for every listing record; a listing
\* with no matching price record has a null price, a listing with no matching
\* statement record has null statement fields, and in both cases the row is
\* in the table.
C23_EveryListingKept ==
  run_pc = "dividends" =>
    /\ Len(merged) >= Len(listed)
    /\ \A i \in DOMAIN listed :
         /\ \E j \in DOMAIN merged : C23_RowOf(j, listed[i])
         /\ \A j \in DOMAIN merged :
              C23_RowOf(j, listed[i]) =>
                /\ C23_NoPrice(listed[i]) =>
                     /\ merged[j].price.k = "nan"
                     /\ merged[j].pbr.k = "nan"
                     /\ merged[j].div_yield.k = "nan"
                     /\ merged[j].market_cap.k = "nan"
                /\ C23_NoStatement(listed[i]) =>
                     /\ merged[j].bps.k = "nan"
                     /\ merged[j].dps_result.k = "nan"
                     /\ merged[j].dps_forecast.k = "nan"
                     /\ merged[j].shares_outstanding.k = "nan"
                     /\ merged[j].dps.k = "nan"
                     /\ merged[j].pbr.k = "nan"

\* Listing "130A" met neither a quote nor a statement: its row follows the
\* priced row of "7203", with a null price and a null book value.
C23_Witness ==
  /\ run_pc = "dividends"
  /\ Len(listed) = 2
  /\ listed[2].Code = <<"1", "3", "0", "A">>
  /\ C23_NoPrice(listed[2])
  /\ C23_NoStatement(listed[2])
  /\ Len(merged) = 2
  /\ merged[1].price.k = "num"
  /\ merged[2].code = <<"1", "3", "0", "A">>
  /\ merged[2].price.k = "nan"
  /\ merged[2].bps.k = "nan"

\* The response is no success, or its body does not hold the key.
C24_Rejected(r, key) ==
  \/ r.kind # "response"
  \/ r.status \notin 200..299
  \/ ~r.json
  \/ r[key] = "<absent>"

C24_Asked(url) == Cardinality({k \in DOMAIN auth_requests : auth_requests[k].url = url})

\* C24: authentication asks each of its two steps at most once, the first
\* before the second; a first step answered with a non-success response or a
\* malformed body raises at once with the second step never asked; after a
\* failed authentication there is no client, no token and no data request,
\* and nothing further happens.
C24_AuthenticationNeverRetries ==
  /\ [](/\ C24_Asked("token/auth_user") <= 1
        /\ C24_Asked("token/auth_refresh") <= 1
        /\ Len(auth_requests) <= 2
        /\ Len(auth_requests) >= 1 =>
             /\ auth_requests[1].url = "token/auth_user"
             /\ C24_Rejected(auth_requests[1].response, "refreshToken") =>
                  /\ auth_pc = "raised"
                  /\ auth_error # ""
                  /\ Len(auth_requests) = 1
        /\ Len(auth_requests) = 2 =>
             /\ auth_requests[2].url = "token/auth_refresh"
             /\ C24_Rejected(auth_requests[2].response, "idToken") =>
                  auth_pc = "raised" /\ auth_error # ""
        /\ auth_pc = "raised" =>
             /\ id_token = ""
             /\ bearers = <<>>
             /\ run_pc = "listed" /\ listed = <<>>
        /\ (bearers # <<>> \/ run_pc # "listed") => auth_pc = "constructed")
  /\ [][auth_pc # "raised"]_vars

\* The first step was answered 200 with a JSON body that holds no
\* refreshToken: the constructor raised KeyError after that one request.
C24_Witness ==
  /\ auth_pc = "raised"
  /\ Len(auth_requests) = 1
  /\ auth_requests[1].response.status = 200
  /\ auth_requests[1].response.json
  /\ auth_requests[1].response.refreshToken = "<absent>"
  /\ auth_error = "KeyError"
  /\ bearers = <<>>

\* C27: within one session the bearer token is written once, by the second
\* authentication step, and every data call carries that token; the
\* subscription boundary is written at most once, by the trading-date step,
\* before the statement collector takes its scan anchor, which is the boundary
\* if set and the current date otherwise.
C27_TokenAndBoundaryWrittenOnce ==
  /\ [](/\ auth_pc = "constructed" =>
             id_token # "" /\ id_token = auth_requests[2].response.idToken
        /\ auth_pc # "constructed" => id_token = ""
        /\ \A k \in DOMAIN bearers : bearers[k] = id_token
        /\ subscription_end # "<none>" => run_pc \notin {"listed", "trading_date"}
        /\ scan_dates # <<>> =>
             /\ run_pc \in {"screen", "dividends", "returned", "raised"}
             /\ latest_date # "<none>"
             /\ scan_dates[1] = (IF subscription_end = "2024-03-01" THEN 60 ELSE 100))
  /\ [][id_token' # id_token =>
          id_token = "" /\ auth_pc = "auth_refresh" /\ bearers = <<>>]_vars
  /\ [][subscription_end' # subscription_end =>
          /\ subscription_end = "<none>"
          /\ run_pc = "trading_date"
          /\ scan_dates = <<>>]_vars
  /\ [][scan_dates' # scan_dates =>
          /\ scan_dates = <<>>
          /\ run_pc = "statements"
          /\ subscription_end' = subscription_end]_vars

\* run returned with token "id-2" on every one of its calls, the locator
\* having set the boundary to 1 March 2024, from which the collector scanned.
C27_Witness ==
  /\ run_pc = "returned"
  /\ id_token = "id-2"
  /\ Len(bearers) >= 5
  /\ subscription_end = "2024-03-01"
  /\ scan_dates[1] = 60

C26_Permutations(n) ==
  {p \in [1..n -> 1..n] : \A i, j \in 1..n : i # j => p[i] # p[j]}

C26_Set(rows) == {rows[i] : i \in DOMAIN rows}

\* C26: the reduction of a list does not depend on the order of its records:
\* every permutation of the list reduces to the same set of records.
C26_OrderIndependent ==
  red_pc = "done" =>
    \A p \in C26_Permutations(Len(stmts)) :
      C26_Set(KeepLatestStatements([i \in DOMAIN stmts |-> stmts[p[i]]]))
        = C26_Set(reduced)

\* C29: _get does not wait after its last permitted attempt: whenever it is
\* in a backoff wait, a further request follows.
C29_NoWaitAfterLastAttempt ==
  pc = "sleep" => attempt + 1 < 4

\* C30: when a page request of _get_paginated fails, with a client error
\* that is not retried or with the retries exhausted, the call raises that
\* error, returns none of the items of the pages it had received and asks
\* for no further page; the sampled date of the collector whose call failed
\* adds nothing to the accumulated list.
C30_FailedPageDropsTheCall ==
  /\ [](/\ (pc = "raised" /\ ppc # "loop") => ppc = "raised"
        /\ ppc = "raised" =>
             /\ pc = "raised"
             /\ presult.kind = "raise"
             /\ presult.items = <<>>
             /\ presult.exc = outcome.exc
             /\ presult.exc.type \in {"HTTPError", "RuntimeError"}
             /\ Len(sent) = Len(got) + 1
        /\ (ppc = "raised" /\ col_idx = 1) =>
             /\ all_statements = <<>>
             /\ n_received = 0
             /\ n_failed = 1
        /\ (ppc = "done" /\ col_idx = 1) => all_statements = results)
  /\ [][ppc = "raised" => (ppc' = "raised" /\ sent' = sent /\ nreq' = nreq)]_vars

\* The call had received a page with items and a cursor when the request of
\* the next page failed: the date is done and the accumulated list is empty.
C30_Witness ==
  /\ ppc = "raised"
  /\ Len(got) >= 1
  /\ results # <<>>
  /\ col_idx = 1
  /\ discarded = results
  /\ all_statements = <<>>

====
